---- MODULE Spec2Model ----
(***************************************************************************)
(* State-machine model of the Maven/Gradle indexer: the Indexer singleton  *)
(* (single-flight index(), refresh(), watcher debounce, hourly timer), the *)
(* repository scanners and the SQLite store it writes.                     *)
(***************************************************************************)
EXTENDS Integers, Sequences, FiniteSets, Bags, TLC

\* ------------------------------------------------------------------ bounds
NumArtifacts == 2      \* coordinates that may exist on disk
MaxRuns == 3           \* index() runs that may be started in one behaviour
MaxRefresh == 2        \* refresh() calls in one behaviour
MaxConcurrent == 2     \* activation records available to index() calls

\* ------------------------------------------------------- program constants
CHUNK_SIZE == 50

\* ---------------------------------------------------------- string helpers
StartsWith(s, p) == Len(p) <= Len(s) /\ SubSeq(s, 1, Len(p)) = p

EndsWith(s, p) == Len(p) <= Len(s) /\ SubSeq(s, Len(s) - Len(p) + 1, Len(s)) = p

Includes(s, ch) == \E i \in 1..Len(s) : SubSeq(s, i, i) = ch

\* position of the last occurrence of ch in s, 0 when there is none
LastIndexOf(s, ch) ==
    LET hits == {i \in 1..Len(s) : SubSeq(s, i, i) = ch}
    IN IF hits = {} THEN 0 ELSE CHOOSE i \in hits : \A j \in hits : j <= i

RECURSIVE ReplaceAll(_, _, _)
ReplaceAll(s, from, to) ==
    IF Len(s) = 0 THEN ""
    ELSE (IF SubSeq(s, 1, 1) = from THEN to ELSE SubSeq(s, 1, 1))
         \o ReplaceAll(SubSeq(s, 2, Len(s)), from, to)

\* path.basename / path.dirname / path.join / path.relative on '/' paths
Basename(p) == SubSeq(p, LastIndexOf(p, "/") + 1, Len(p))

Dirname(p) == SubSeq(p, 1, LastIndexOf(p, "/") - 1)

PathJoin(a, b) == a \o "/" \o b

PathRelative(from, to) ==
    IF to = from THEN ""
    ELSE IF StartsWith(to, from \o "/") THEN SubSeq(to, Len(from) + 2, Len(to))
    ELSE ".." \o "/" \o to

\* cls.split('.').pop() || cls
SimpleName(cls) ==
    LET last == SubSeq(cls, LastIndexOf(cls, ".") + 1, Len(cls))
    IN IF last = "" THEN cls ELSE last

RECURSIVE Flatten(_)
Flatten(ss) == IF ss = <<>> THEN <<>> ELSE Head(ss) \o Flatten(Tail(ss))

SeqToSet(s) == {s[i] : i \in 1..Len(s)}

\* a sequence enumerating the set of integers S in ascending order
RECURSIVE Ascending(_)
Ascending(S) ==
    IF S = {} THEN <<>>
    ELSE LET m == CHOOSE x \in S : \A y \in S : x <= y
         IN <<m>> \o Ascending(S \ {m})

\* bag with one more copy of e
BagAdd(b, e) == b (+) SetToBag({e})

RECURSIVE BagAddAll(_, _)
BagAddAll(b, es) == IF es = <<>> THEN b ELSE BagAddAll(BagAdd(b, Head(es)), Tail(es))

\* -------------------------------------------------------------- the disk
\* Roots of the two layouts (config.localRepository, config.gradleRepository)
MavenRoot == "/m2"
GradleRoot == "/gr"

Coords == 1..NumArtifacts

\* What a coordinate's version directory holds:
\*   "pomOnly" the .pom but no main jar
\*   "corrupt" the .pom and a main jar that cannot be read to its end: it is
\*             not a ZIP, or the stream of one of its entries fails
\*   "jar"     the .pom and a readable main jar
DiskKinds == {"pomOnly", "corrupt", "jar"}

\* The coordinates the model places on disk; odd ones live in the Maven
\* layout, even ones in the Gradle layout.
Coordinate(c) ==
    CASE c = 1 -> [layout |-> "maven", groupId |-> "com.a", artifactId |-> "lib1", version |-> "1.0", sources |-> TRUE]
      [] c = 2 -> [layout |-> "gradle", groupId |-> "com.b", artifactId |-> "lib2", version |-> "2.0", sources |-> FALSE]
      [] c = 3 -> [layout |-> "maven", groupId |-> "org.x", artifactId |-> "lib3", version |-> "1.0", sources |-> FALSE]
      [] c = 4 -> [layout |-> "gradle", groupId |-> "com.ab", artifactId |-> "lib4", version |-> "1.0", sources |-> TRUE]
      [] c = 5 -> [layout |-> "maven", groupId |-> "com.ab", artifactId |-> "lib5", version |-> "1.0", sources |-> FALSE]
      [] c = 6 -> [layout |-> "maven", groupId |-> "com.a.b", artifactId |-> "lib6", version |-> "1.0", sources |-> FALSE]
      [] OTHER -> [layout |-> "gradle", groupId |-> "com.a", artifactId |-> "lib" \o ToString(c), version |-> "1.0", sources |-> TRUE]

\* <root>/<group-as-path>/<artifactId>/<version>
MavenDir(c) ==
    PathJoin(PathJoin(PathJoin(MavenRoot, ReplaceAll(Coordinate(c).groupId, ".", "/")),
                      Coordinate(c).artifactId), Coordinate(c).version)

\* <root>/<groupId>/<artifactId>/<version>
GradleVersionDir(c) ==
    PathJoin(PathJoin(PathJoin(GradleRoot, Coordinate(c).groupId),
                      Coordinate(c).artifactId), Coordinate(c).version)

JarName(c) == Coordinate(c).artifactId \o "-" \o Coordinate(c).version \o ".jar"

MainJarPath(c) ==
    IF Coordinate(c).layout = "maven" THEN PathJoin(MavenDir(c), JarName(c))
    ELSE PathJoin(PathJoin(GradleVersionDir(c), "h1"), JarName(c))

\* The entries of a coordinate's main jar: parsed .class entries
\* (ClassParser.parse results; ok = FALSE marks a blob the parser rejects)
\* and .proto entries (with their ProtoParser.parse results).
Archive(c) ==
    CASE c = 1 ->
           [classes |-> << [className |-> "com.a.Foo", superClass |-> "java.lang.Object", interfaces |-> <<>>, ok |-> TRUE],
                           [className |-> "com.a.Foo$Inner", superClass |-> "com.a.Foo", interfaces |-> <<>>, ok |-> TRUE],
                           [className |-> "org.x.Ext", superClass |-> "com.a.Foo", interfaces |-> <<>>, ok |-> TRUE] >>,
            protos |-> << [path |-> "proto/foo_bar.proto", content |-> "syntax1",
                           protoInfo |-> [package |-> "a", javaPackage |-> "", javaOuterClassname |-> "",
                                          javaMultipleFiles |-> FALSE, definitions |-> <<"Msg">>]] >>]
      [] c = 2 ->
           [classes |-> << [className |-> "com.b.Bar", superClass |-> "com.a.Foo", interfaces |-> <<"com.b.Iface">>, ok |-> TRUE],
                           [className |-> "", superClass |-> "", interfaces |-> <<>>, ok |-> FALSE] >>,
            protos |-> <<>>]
      [] OTHER ->
           [classes |-> << [className |-> "com.a.Foo", superClass |-> "", interfaces |-> <<>>, ok |-> TRUE] >>,
            protos |-> << [path |-> "foo.proto", content |-> "syntax2",
                           protoInfo |-> [package |-> "", javaPackage |-> "com.a", javaOuterClassname |-> "Foo",
                                          javaMultipleFiles |-> TRUE, definitions |-> <<"Foo">>]] >>]

\* The files of a Gradle version directory, as <<hash dir, file name>> in
\* directory order: the sources jar, when there is one, sits in its own hash
\* directory.
GradleFiles(c, kind) ==
    LET base == Coordinate(c).artifactId \o "-" \o Coordinate(c).version
    IN (IF kind \in {"jar", "corrupt"} THEN << <<"h1", base \o ".jar">> >> ELSE <<>>)
       \o << <<"h1", base \o ".pom">> >>
       \o (IF Coordinate(c).sources THEN << <<"h2", base \o "-sources.jar">> >> ELSE <<>>)

\* fs.access(jarPath) succeeds
JarExists(d, jarPath) ==
    \E c \in DOMAIN d : d[c] \in {"jar", "corrupt"} /\ MainJarPath(c) = jarPath

\* yauzl opens jarPath and streams it to its 'end' event
JarReadable(d, jarPath) ==
    \E c \in DOMAIN d : d[c] = "jar" /\ MainJarPath(c) = jarPath

JarContent(d, jarPath) ==
    Archive(CHOOSE c \in DOMAIN d : MainJarPath(c) = jarPath)

\* ------------------------------------------------------------ the scanners
getMavenStartDirs(repoRoot, normalizedPatterns) ==
    IF Len(normalizedPatterns) = 0 THEN <<repoRoot>>
    ELSE [i \in 1..Len(normalizedPatterns) |->
             PathJoin(repoRoot, ReplaceAll(normalizedPatterns[i], ".", "/"))]

\* isGroupIncluded that compares without the "." that ends a prefix
isGroupIncludedNoDot(groupId, normalizedPatterns) ==
    \/ Len(normalizedPatterns) = 0
    \/ \E i \in 1..Len(normalizedPatterns) : StartsWith(groupId, normalizedPatterns[i])

isGroupIncluded(groupId, normalizedPatterns) ==
    \/ Len(normalizedPatterns) = 0
    \/ \E i \in 1..Len(normalizedPatterns) :
          \/ groupId = normalizedPatterns[i]
          \/ StartsWith(groupId, normalizedPatterns[i] \o ".")

\* scanDir on a directory that holds a .pom: the artifact it pushes, if any
MavenLeaf(repoRoot, dir, hasSource) ==
    LET version == Basename(dir)
        artifactDir == Dirname(dir)
        artifactId == Basename(artifactDir)
        groupDir == Dirname(artifactDir)
        groupId == ReplaceAll(PathRelative(repoRoot, groupDir), "/", ".")
    IN IF groupId # "" /\ artifactId # "" /\ version # "" /\ ~StartsWith(groupId, "..")
       THEN << [id |-> 0, groupId |-> groupId, artifactId |-> artifactId, version |-> version,
                abspath |-> dir, hasSource |-> hasSource] >>
       ELSE <<>>

scanRepository(d, repoRoot, normalizedPatterns) ==
    LET startDirs == getMavenStartDirs(repoRoot, normalizedPatterns)
        leaves == Ascending({c \in DOMAIN d : Coordinate(c).layout = "maven" /\ d[c] \in DiskKinds})
        scanDir(startDir) ==
            Flatten([k \in 1..Len(leaves) |->
                IF MavenDir(leaves[k]) = startDir \/ StartsWith(MavenDir(leaves[k]), startDir \o "/")
                THEN MavenLeaf(repoRoot, MavenDir(leaves[k]), Coordinate(leaves[k]).sources)
                ELSE <<>>])
    IN Flatten([k \in 1..Len(startDirs) |-> scanDir(startDirs[k])])

\* a scan that stops after the first hash directory that holds a file
GradleVersionFirstHash(c, files) ==
    LET first == SelectSeq(files, LAMBDA f : f[1] = files[1][1])
        mains == SelectSeq(first, LAMBDA f : EndsWith(f[2], ".jar") /\ ~EndsWith(f[2], "-sources.jar")
                                                /\ ~EndsWith(f[2], "-javadoc.jar"))
    IN IF Len(mains) > 0
       THEN << [id |-> 0, groupId |-> Coordinate(c).groupId, artifactId |-> Coordinate(c).artifactId,
                version |-> Coordinate(c).version,
                abspath |-> PathJoin(PathJoin(GradleVersionDir(c), mains[Len(mains)][1]), mains[Len(mains)][2]),
                hasSource |-> \E k \in 1..Len(first) : EndsWith(first[k][2], "-sources.jar")] >>
       ELSE <<>>

\* one version directory of the Gradle cache; files are the <<hash directory,
\* file name>> pairs in the order the two nested loops meet them
GradleVersion(c, files) ==
    LET isJar(f) == EndsWith(f[2], ".jar")
        mains == SelectSeq(files, LAMBDA f : isJar(f) /\ ~EndsWith(f[2], "-sources.jar")
                                                /\ ~EndsWith(f[2], "-javadoc.jar"))
        hasSource == \E k \in 1..Len(files) : isJar(files[k]) /\ EndsWith(files[k][2], "-sources.jar")
    IN IF Len(mains) > 0
       THEN << [id |-> 0, groupId |-> Coordinate(c).groupId, artifactId |-> Coordinate(c).artifactId,
                version |-> Coordinate(c).version,
                abspath |-> PathJoin(PathJoin(GradleVersionDir(c), mains[Len(mains)][1]), mains[Len(mains)][2]),
                hasSource |-> hasSource] >>
       ELSE <<>>

scanGradleRepository(d, normalizedPatterns) ==
    LET dirs == Ascending({c \in DOMAIN d : Coordinate(c).layout = "gradle" /\ d[c] \in DiskKinds})
    IN Flatten([k \in 1..Len(dirs) |->
           IF isGroupIncluded(Coordinate(dirs[k]).groupId, normalizedPatterns)
           THEN GradleVersion(dirs[k], GradleFiles(dirs[k], d[dirs[k]]))
           ELSE <<>>])

\* what is on disk under the roots that exist
Visible(rts, d) == [c \in {x \in DOMAIN d : Coordinate(x).layout \in rts} |-> d[c]]

\* steps 1 of index(): the artifacts found under the roots that exist
ScanAll(rts, d, normalizedPatterns) ==
    (IF "maven" \in rts THEN scanRepository(d, MavenRoot, normalizedPatterns) ELSE <<>>)
    \o (IF "gradle" \in rts THEN scanGradleRepository(d, normalizedPatterns) ELSE <<>>)

\* --------------------------------------------------------------- the store
EmptyDB ==
    [artifacts |-> <<>>,          \* rows in id order; a row's id is its position
     classes_fts |-> EmptyBag,    \* bag of [artifact_id, class_name, simple_name]
     inheritance |-> EmptyBag,    \* bag of [artifact_id, class_name, parent_class_name, type]
     resources |-> {},            \* set of [id, artifact_id, path, content, type]
     resource_classes |-> EmptyBag, \* bag of [resource_id, class_name]
     resource_seq |-> 0]          \* AUTOINCREMENT counter of resources.id

\* INSERT OR REPLACE INTO artifacts: the row of the coordinate takes the
\* scanned values
insertArtifactReplace(db, art) ==
    LET row(id) == [id |-> id, groupId |-> art.groupId, artifactId |-> art.artifactId,
                    version |-> art.version, abspath |-> art.abspath,
                    hasSource |-> art.hasSource, isIndexed |-> FALSE]
        same(k) == /\ db.artifacts[k].groupId = art.groupId
                   /\ db.artifacts[k].artifactId = art.artifactId
                   /\ db.artifacts[k].version = art.version
    IN IF \E k \in 1..Len(db.artifacts) : same(k)
       THEN [db EXCEPT !.artifacts = [k \in 1..Len(@) |-> IF same(k) THEN row(k) ELSE @[k]]]
       ELSE [db EXCEPT !.artifacts = Append(@, row(Len(db.artifacts) + 1))]

\* INSERT OR IGNORE INTO artifacts ... VALUES (..., 0). The ids SQLite hands
\* out grow with every insert and may skip numbers; a row's id here is its
\* rank among them.
insertArtifact(db, art) ==
    IF \E k \in 1..Len(db.artifacts) :
          /\ db.artifacts[k].groupId = art.groupId
          /\ db.artifacts[k].artifactId = art.artifactId
          /\ db.artifacts[k].version = art.version
    THEN db
    ELSE [db EXCEPT !.artifacts =
            Append(@, [id |-> Len(db.artifacts) + 1, groupId |-> art.groupId,
                       artifactId |-> art.artifactId, version |-> art.version,
                       abspath |-> art.abspath, hasSource |-> art.hasSource,
                       isIndexed |-> FALSE])]

RECURSIVE UpsertAll(_, _)
UpsertAll(db, arts) ==
    IF arts = <<>> THEN db ELSE UpsertAll(insertArtifact(db, Head(arts)), Tail(arts))

\* UPDATE artifacts SET is_indexed = 0
ResetIndexed(db) ==
    [db EXCEPT !.artifacts = [k \in 1..Len(@) |-> [@[k] EXCEPT !.isIndexed = FALSE]]]

\* UPDATE artifacts SET is_indexed = 1 WHERE id = ?
MarkIndexed(db, id) ==
    [db EXCEPT !.artifacts =
        [k \in 1..Len(@) |-> IF @[k].id = id THEN [@[k] EXCEPT !.isIndexed = TRUE] ELSE @[k]]]

\* refresh() that forgets the class index
RefreshResetKeepsClasses(db) ==
    [ResetIndexed(db) EXCEPT !.inheritance = EmptyBag,
                             !.resources = {},
                             !.resource_classes = EmptyBag]

\* refresh() that forgets the resource tables
RefreshResetKeepsResources(db) ==
    [ResetIndexed(db) EXCEPT !.classes_fts = EmptyBag,
                             !.inheritance = EmptyBag]

\* a refresh that starts from an empty database file
RefreshResetDropsArtifacts(db) == EmptyDB

\* refresh() that forgets the resource-class links
RefreshResetKeepsLinks(db) ==
    [ResetIndexed(db) EXCEPT !.classes_fts = EmptyBag,
                             !.inheritance = EmptyBag,
                             !.resources = {}]

\* the transaction of refresh()
RefreshReset(db) ==
    [ResetIndexed(db) EXCEPT !.classes_fts = EmptyBag,
                             !.inheritance = EmptyBag,
                             !.resources = {},
                             !.resource_classes = EmptyBag]

\* a backfill check that does not look at the inheritance table
NeedsBackfillAnyIndexed(db) ==
    \E k \in 1..Len(db.artifacts) : db.artifacts[k].isIndexed

\* the inheritance backfill check of index()
NeedsBackfill(db) ==
    /\ BagCardinality(db.inheritance) = 0
    /\ \E k \in 1..Len(db.artifacts) : db.artifacts[k].isIndexed

BackfillReset(db) ==
    IF NeedsBackfill(db) THEN [ResetIndexed(db) EXCEPT !.classes_fts = EmptyBag] ELSE db

\* SELECT ... FROM artifacts WHERE is_indexed = 0
findUnindexed(db) ==
    SelectSeq([k \in 1..Len(db.artifacts) |->
                  [id |-> db.artifacts[k].id, groupId |-> db.artifacts[k].groupId,
                   artifactId |-> db.artifacts[k].artifactId, version |-> db.artifacts[k].version,
                   abspath |-> db.artifacts[k].abspath, hasSource |-> db.artifacts[k].hasSource]],
              LAMBDA a : ~db.artifacts[a.id].isIndexed)

\* ------------------------------------------------- reading one archive
isPackageIncluded(className, normalizedPatterns) ==
    \/ Len(normalizedPatterns) = 0
    \/ \E i \in 1..Len(normalizedPatterns) :
          \/ className = normalizedPatterns[i]
          \/ StartsWith(className, normalizedPatterns[i] \o ".")

\* the 'entry' handler's test on a parsed .class entry
ClassAccepted(info, normalizedPatterns) ==
    /\ info.ok
    /\ ~Includes(info.className, "$")
    /\ Len(info.className) > 0
    /\ isPackageIncluded(info.className, normalizedPatterns)

EdgesOf(info) ==
    (IF info.superClass # "" /\ info.superClass # "java.lang.Object"
     THEN << [className |-> info.className, parent |-> info.superClass, type |-> "extends"] >>
     ELSE <<>>)
    \o [k \in 1..Len(info.interfaces) |->
           [className |-> info.className, parent |-> info.interfaces[k], type |-> "implements"]]

\* the classes, inheritance and resources arrays when the 'end' event fires
ReadArchive(content, normalizedPatterns) ==
    LET accepted == SelectSeq(content.classes, LAMBDA info : ClassAccepted(info, normalizedPatterns))
    IN [classes |-> [k \in 1..Len(accepted) |-> accepted[k].className],
        inheritance |-> Flatten([k \in 1..Len(accepted) |-> EdgesOf(accepted[k])]),
        resources |-> [k \in 1..Len(content.protos) |->
                          [path |-> content.protos[k].path, content |-> content.protos[k].content,
                           type |-> "proto", protoInfo |-> content.protos[k].protoInfo]]]

\* ---------------------------------------- class names of a .proto resource
Lower == "abcdefghijklmnopqrstuvwxyz"
Upper == "ABCDEFGHIJKLMNOPQRSTUVWXYZ"

ToUpperCase(ch) ==
    IF \E i \in 1..Len(Lower) : SubSeq(Lower, i, i) = ch
    THEN LET i == CHOOSE i \in 1..Len(Lower) : SubSeq(Lower, i, i) = ch IN SubSeq(Upper, i, i)
    ELSE ch

\* p.charAt(0).toUpperCase() + p.slice(1)
Capitalize(p) == IF p = "" THEN "" ELSE ToUpperCase(SubSeq(p, 1, 1)) \o SubSeq(p, 2, Len(p))

\* s.replace(pat, ''): the first occurrence only
RemoveFirst(s, pat) ==
    LET hits == {i \in 1..(Len(s) - Len(pat) + 1) : SubSeq(s, i, i + Len(pat) - 1) = pat}
    IN IF hits = {} THEN s
       ELSE LET i == CHOOSE i \in hits : \A j \in hits : i <= j
            IN SubSeq(s, 1, i - 1) \o SubSeq(s, i + Len(pat), Len(s))

\* baseName.split('_').map(capitalize).join('')
RECURSIVE CamelCase(_)
CamelCase(s) ==
    LET hits == {i \in 1..Len(s) : SubSeq(s, i, i) = "_"}
    IN IF hits = {} THEN Capitalize(s)
       ELSE LET i == CHOOSE i \in hits : \A j \in hits : i <= j
            IN Capitalize(SubSeq(s, 1, i - 1)) \o CamelCase(SubSeq(s, i + 1, Len(s)))

classesToIndex(res) ==
    LET info == res.protoInfo
        packageName == IF info.javaPackage # "" THEN info.javaPackage ELSE info.package
        outerClassName == IF info.javaOuterClassname # "" THEN info.javaOuterClassname
                          ELSE CamelCase(RemoveFirst(Basename(res.path), ".proto"))
        fullOuterClassName == IF packageName # "" THEN packageName \o "." \o outerClassName
                              ELSE outerClassName
    IN <<fullOuterClassName>>
       \o [k \in 1..Len(info.definitions) |->
              IF info.javaMultipleFiles
              THEN (IF packageName # "" THEN packageName \o "." \o info.definitions[k]
                    ELSE info.definitions[k])
              ELSE fullOuterClassName \o "." \o info.definitions[k]]

\* ------------------------------------------------- the per-artifact commit
ClassRow(artifactId, cls) ==
    [artifact_id |-> artifactId, class_name |-> cls, simple_name |-> SimpleName(cls)]

\* insertResourceClass, then insertClass unless checkClassExists finds a row
RECURSIVE InsertResourceClasses(_, _, _, _)
InsertResourceClasses(db, artifactId, resourceId, names) ==
    IF names = <<>> THEN db
    ELSE LET linked == [db EXCEPT !.resource_classes =
                            BagAdd(@, [resource_id |-> resourceId, class_name |-> Head(names)])]
             row == ClassRow(artifactId, Head(names))
             next == IF \E r \in BagToSet(linked.classes_fts) :
                            r.artifact_id = artifactId /\ r.class_name = Head(names)
                     THEN linked
                     ELSE [linked EXCEPT !.classes_fts = BagAdd(@, row)]
         IN InsertResourceClasses(next, artifactId, resourceId, Tail(names))

RECURSIVE InsertResources(_, _, _)
InsertResources(db, artifactId, resources) ==
    IF resources = <<>> THEN db
    ELSE LET res == Head(resources)
             resourceId == db.resource_seq + 1
             inserted == [db EXCEPT !.resource_seq = resourceId,
                                    !.resources = @ \cup {[id |-> resourceId, artifact_id |-> artifactId,
                                                           path |-> res.path, content |-> res.content,
                                                           type |-> res.type]}]
             withClasses == IF res.type = "proto"
                            THEN InsertResourceClasses(inserted, artifactId, resourceId, classesToIndex(res))
                            ELSE inserted
         IN InsertResources(withClasses, artifactId, Tail(resources))

\* the 'end' handler with the is_indexed update left out of its transaction, and lost
CommitArtifactNoFlag(db, artifactId, read) ==
    LET withClasses == [db EXCEPT !.classes_fts =
                           BagAddAll(@, [k \in 1..Len(read.classes) |-> ClassRow(artifactId, read.classes[k])])]
        withEdges == [withClasses EXCEPT !.inheritance =
                         BagAddAll(@, [k \in 1..Len(read.inheritance) |->
                             [artifact_id |-> artifactId, class_name |-> read.inheritance[k].className,
                              parent_class_name |-> read.inheritance[k].parent,
                              type |-> read.inheritance[k].type]])]
    IN InsertResources(withEdges, artifactId, read.resources)

\* the transaction of the zipfile 'end' handler
CommitArtifact(db, artifactId, read) ==
    LET withClasses == [db EXCEPT !.classes_fts =
                           BagAddAll(@, [k \in 1..Len(read.classes) |-> ClassRow(artifactId, read.classes[k])])]
        withEdges == [withClasses EXCEPT !.inheritance =
                         BagAddAll(@, [k \in 1..Len(read.inheritance) |->
                             [artifact_id |-> artifactId, class_name |-> read.inheritance[k].className,
                              parent_class_name |-> read.inheritance[k].parent,
                              type |-> read.inheritance[k].type]])]
        withResources == InsertResources(withEdges, artifactId, read.resources)
    IN MarkIndexed(withResources, artifactId)

\* jarPath of indexArtifactClasses
JarPathOf(artifact) ==
    IF EndsWith(artifact.abspath, ".jar") THEN artifact.abspath
    ELSE PathJoin(artifact.abspath, artifact.artifactId \o "-" \o artifact.version \o ".jar")

\* The store after indexArtifactClasses(artifact) has run to the resolution of
\* its promise: a missing jar marks the artifact indexed, an archive that
\* cannot be opened or streamed changes nothing, and the 'end' event of a
\* readable one runs the commit transaction.
indexArtifactClasses(db, d, artifact, normalizedPatterns) ==
    LET jarPath == JarPathOf(artifact)
    IN IF ~JarExists(d, jarPath) THEN MarkIndexed(db, artifact.id)
       ELSE IF ~JarReadable(d, jarPath) THEN db
       ELSE CommitArtifact(db, artifact.id, ReadArchive(JarContent(d, jarPath), normalizedPatterns))

\* ------------------------------------------- rows without generated ids
RECURSIVE SumCopies(_, _)
SumCopies(bag, S) ==
    IF S = {} THEN 0
    ELSE LET e == CHOOSE e \in S : TRUE IN bag[e] + SumCopies(bag, S \ {e})

\* the resource rows as a bag of [artifact_id, path, content, type]
ResourceRows(db) ==
    LET proj(r) == [artifact_id |-> r.artifact_id, path |-> r.path, content |-> r.content, type |-> r.type]
        keys == {proj(r) : r \in db.resources}
    IN [e \in keys |-> Cardinality({r \in db.resources : proj(r) = e})]

\* the resource-class links as a bag of [artifact_id, path, class_name], the
\* resource a link names found through its resource_id
LinkRows(db) ==
    LET links == BagToSet(db.resource_classes)
        owner(l) == CHOOSE r \in db.resources : r.id = l.resource_id
        proj(l) == [artifact_id |-> owner(l).artifact_id, path |-> owner(l).path, class_name |-> l.class_name]
        keys == {proj(l) : l \in links}
    IN [e \in keys |-> SumCopies(db.resource_classes, {l \in links : proj(l) = e})]

\* the four dependent tables, ignoring generated row ids
Tables(db) ==
    [classes_fts |-> db.classes_fts, inheritance |-> db.inheritance,
     resources |-> ResourceRows(db), resource_classes |-> LinkRows(db)]

\* every table of the store, ignoring generated row ids of dependent rows
Rows(db) == [artifacts |-> db.artifacts, tables |-> Tables(db)]

\* ------------------------------------------ Config.normalizeScanPatterns
\* the characters of the patterns, in the order of their UTF-16 code units
CodeUnits == " *-.0123456789ABCDEFGHIJKLMNOPQRSTUVWXYZabcdefghijklmnopqrstuvwxyz"

CodeOf(ch) == CHOOSE i \in 1..Len(CodeUnits) : SubSeq(CodeUnits, i, i) = ch

\* a < b as Array.prototype.sort() compares strings: by code units, a proper
\* prefix first
RECURSIVE StringLess(_, _)
StringLess(a, b) ==
    IF b = "" THEN FALSE
    ELSE IF a = "" THEN TRUE
    ELSE IF SubSeq(a, 1, 1) # SubSeq(b, 1, 1)
         THEN CodeOf(SubSeq(a, 1, 1)) < CodeOf(SubSeq(b, 1, 1))
         ELSE StringLess(SubSeq(a, 2, Len(a)), SubSeq(b, 2, Len(b)))

\* p.trim()
RECURSIVE Trim(_)
Trim(p) ==
    IF p = "" THEN ""
    ELSE IF SubSeq(p, 1, 1) = " " THEN Trim(SubSeq(p, 2, Len(p)))
    ELSE IF SubSeq(p, Len(p), Len(p)) = " " THEN Trim(SubSeq(p, 1, Len(p) - 1))
    ELSE p

\* the last map of step 1: a trailing ".*" is cut, "*" becomes ""
StripWildcard(p) ==
    IF EndsWith(p, ".*") THEN SubSeq(p, 1, Len(p) - 2)
    ELSE IF p = "*" THEN ""
    ELSE p

\* clean.sort()
RECURSIVE SortStrings(_)
SortStrings(ss) ==
    IF ss = <<>> THEN <<>>
    ELSE LET rest == SortStrings(Tail(ss))
             before == SelectSeq(rest, LAMBDA x : ~StringLess(Head(ss), x))
             after == SelectSeq(rest, LAMBDA x : StringLess(Head(ss), x))
         IN before \o <<Head(ss)>> \o after

\* step 3: an entry is dropped when it equals the last kept one or starts with
\* it followed by "."
RECURSIVE Absorb(_, _)
Absorb(result, clean) ==
    IF clean = <<>> THEN result
    ELSE LET p == Head(clean)
         IN IF result = <<>> THEN Absorb(<<p>>, Tail(clean))
            ELSE LET last == result[Len(result)]
                 IN IF p = last \/ StartsWith(p, last \o ".")
                    THEN Absorb(result, Tail(clean))
                    ELSE Absorb(Append(result, p), Tail(clean))

normalizeScanPatterns(patterns) ==
    IF Len(patterns) = 0 THEN <<>>
    ELSE LET trimmed == [k \in 1..Len(patterns) |-> Trim(patterns[k])]
             nonBlank == SelectSeq(trimmed, LAMBDA x : Len(x) > 0)
             clean == [k \in 1..Len(nonBlank) |-> StripWildcard(nonBlank[k])]
         IN IF \E k \in 1..Len(clean) : clean[k] = "" THEN <<>>
            ELSE IF Len(clean) = 0 THEN <<>>
            ELSE Absorb(<<>>, SortStrings(clean))

\* ------------------------------------------------------------- the state
VARIABLES
    roots,                        \* which of the two repository roots exist
    disk,                         \* Coords -> DiskKinds
    normalizedIncludedPackages,   \* Config.normalizedIncludedPackages
    db,                           \* the store
    isIndexing,                   \* Indexer.isIndexing
    watcher,                      \* Indexer.watcher is set
    scheduleTimer,                \* Indexer.scheduleTimer is set
    debounceTimer,                \* Indexer.debounceTimer: "null", or the state of the timeout it names: "pending" or "fired"
    timeouts,                     \* the debounce timeouts armed in the event loop
    burst,                        \* watcher events since the last debounce call of index(): 0, 1 or 2 for more
    connected,                    \* server.connect(transport) has been called: tool calls are served
    main,                         \* the server's start-up: "start", "indexing", "then", "watch", "serving"
    run,                          \* the activations of index(): position and locals
    runsStarted,                  \* index() calls that passed the guard so far
    refreshes,                    \* refresh() calls so far
    lastDone,                     \* how the last run ended: "none" (or a refresh since), "ok", "failed"
    refSnap,                      \* the refreshes that ran to completion: how many, and Rows after the last
    call                          \* the last call of a function made on its own: its name, arguments and result

config == <<roots, disk, normalizedIncludedPackages, call>>
debounce == <<debounceTimer, timeouts, burst>>
timers == <<watcher, scheduleTimer, debounce, main, connected>>
vars == <<roots, disk, normalizedIncludedPackages, db, isIndexing, watcher, scheduleTimer,
          debounceTimer, timeouts, burst, connected, main, run, runsStarted, refreshes, lastDone, refSnap, call>>
counters == <<runsStarted, refreshes>>
history == <<lastDone, refSnap>>

Runs == 1..MaxConcurrent

\* an activation that is not executing
\*   pc, artifactsToIndex, i, phase: the position and locals of index()
\*   kind: "boot" for the call of the server's start-up, "refresh" for the one
\*   of refresh(), else "index"; base: Rows when it was called; prior: lastDone then;
\*   clean: no refresh() has been called during the run
IdleRun == [pc |-> "idle", kind |-> "none", artifactsToIndex |-> <<>>, i |-> 0, phase |-> <<>>,
            base |-> "none", prior |-> "none", clean |-> TRUE]

None == "none"

Active == {r \in Runs : run[r].pc # "idle"}

Prefixes == {<<>>, <<"com.a">>}

\* no function has been called on its own
NoCall == [op |-> "none"]

\* the fields of the indexer as constructed, nothing started
NothingStarted ==
    /\ isIndexing = FALSE
    /\ watcher = FALSE
    /\ scheduleTimer = FALSE
    /\ debounceTimer = "null"
    /\ timeouts = 0
    /\ burst = 0
    /\ connected = FALSE
    /\ main = "start"
    /\ run = [r \in Runs |-> IdleRun]
    /\ runsStarted = 0
    /\ refreshes = 0
    /\ lastDone = "none"
    /\ refSnap = [n |-> 0, rows |-> None]

\* both roots exist and the database file is new
Constructed ==
    /\ roots = {"maven", "gradle"}
    /\ db = EmptyDB
    /\ NothingStarted

Init ==
    /\ disk \in [Coords -> DiskKinds]
    /\ normalizedIncludedPackages \in Prefixes
    /\ call = NoCall
    /\ Constructed

\* ----------------------------------------------------------------- index()
\* index() without its re-entry guard
IndexGuardMissing(flag) == FALSE

\* "if (this.isIndexing) return;"
IndexGuard(flag) == flag

\* the chunk that starts at position i of the list
ChunkOf(list, i) ==
    SubSeq(list, i, IF i + CHUNK_SIZE - 1 < Len(list) THEN i + CHUNK_SIZE - 1 ELSE Len(list))

\* index() called by `kind`: a no-op while a run is in progress, otherwise the
\* flag is set and the run goes on to its scan
Disturbed(rn, kind) ==
    [r \in Runs |-> IF kind = "refresh" /\ rn[r].pc # "idle" THEN [rn[r] EXCEPT !.clean = FALSE] ELSE rn[r]]

IndexEntry(kind) ==
    IF IndexGuard(isIndexing)
    THEN /\ run' = Disturbed(run, kind)
         /\ UNCHANGED <<isIndexing, runsStarted>>
    ELSE /\ runsStarted < MaxRuns
         /\ \E r \in Runs :
               /\ run[r].pc = "idle"
               /\ \A q \in Runs : run[q].pc = "idle" => r <= q
               /\ run' = [Disturbed(run, kind) EXCEPT ![r] =
                             [IdleRun EXCEPT !.pc = "scan", !.kind = kind, !.base = Rows(db),
                                             !.prior = IF kind = "refresh" THEN "none" ELSE lastDone]]
         /\ isIndexing' = TRUE
         /\ runsStarted' = runsStarted + 1

\* the end of index(): "finally { this.isIndexing = false; }"
Finish(r, outcome) ==
    /\ run' = [run EXCEPT ![r] = IdleRun]
    /\ isIndexing' = FALSE
    /\ main' = IF run[r].kind = "boot" THEN "then" ELSE main
    /\ lastDone' = outcome
    /\ refSnap' = IF outcome = "ok" /\ run[r].kind = "refresh" /\ run[r].clean
                  THEN [n |-> refSnap.n + 1, rows |-> Rows(db')]
                  ELSE refSnap

\* steps 1 to 3 of index() and the start of the first chunk
IndexSync(r) ==
    /\ run[r].pc = "scan"
    /\ LET scanned == ScanAll(roots, disk, normalizedIncludedPackages)
           synced == BackfillReset(UpsertAll(db, scanned))
           artifactsToIndex == findUnindexed(synced)
       IN /\ db' = synced
          /\ IF Len(artifactsToIndex) = 0
             THEN Finish(r, "ok")
             ELSE /\ run' = [run EXCEPT ![r].pc = "ingest",
                                        ![r].artifactsToIndex = artifactsToIndex,
                                        ![r].i = 1,
                                        ![r].phase = [k \in 1..Len(ChunkOf(artifactsToIndex, 1)) |-> "pending"]]
                  /\ UNCHANGED <<isIndexing, history, main>>
    /\ UNCHANGED <<config, watcher, scheduleTimer, connected, debounce, counters>>

\* a scanner or store error: "catch (e) { console.error(...) }"
IndexFail(r) ==
    /\ run[r].pc = "scan"
    /\ UNCHANGED db
    /\ Finish(r, "failed")
    /\ UNCHANGED <<config, watcher, scheduleTimer, connected, debounce, counters>>

\* One artifact of the current chunk finishes. The one write of
\* indexArtifactClasses is the last thing it does and all it reads before is
\* the disk, so its earlier awaits are not separate steps.
IndexArtifact(r, k) ==
    /\ run[r].pc = "ingest"
    /\ k \in DOMAIN run[r].phase
    /\ run[r].phase[k] = "pending"
    /\ db' = indexArtifactClasses(db, Visible(roots, disk), ChunkOf(run[r].artifactsToIndex, run[r].i)[k],
                                  normalizedIncludedPackages)
    /\ run' = [run EXCEPT ![r].phase[k] = "done"]
    /\ UNCHANGED <<config, timers, isIndexing, counters, history>>

\* The read stream of an entry of the artifact's archive emits 'error'. No
\* handler is registered on the stream, and neither zipfile.readEntry() nor
\* resolve() is called again for this archive: the promise of
\* indexArtifactClasses stays pending (if the process outlives the unhandled
\* 'error' event at all).
EntryStreamError(r, k) ==
    /\ run[r].pc = "ingest"
    /\ k \in DOMAIN run[r].phase
    /\ run[r].phase[k] = "pending"
    /\ LET jarPath == JarPathOf(ChunkOf(run[r].artifactsToIndex, run[r].i)[k])
       IN JarExists(Visible(roots, disk), jarPath) /\ ~JarReadable(Visible(roots, disk), jarPath)
    /\ run' = [run EXCEPT ![r].phase[k] = "stuck"]
    /\ UNCHANGED <<config, timers, db, isIndexing, counters, history>>

\* "await Promise.all(chunk...)" returns: the next chunk starts or the run ends
ChunkDone(r) ==
    /\ run[r].pc = "ingest"
    /\ \A k \in DOMAIN run[r].phase : run[r].phase[k] = "done"
    /\ UNCHANGED db
    /\ LET next == run[r].i + CHUNK_SIZE
       IN IF next <= Len(run[r].artifactsToIndex)
          THEN /\ run' = [run EXCEPT ![r].i = next,
                                     ![r].phase = [k \in 1..Len(ChunkOf(run[r].artifactsToIndex, next)) |-> "pending"]]
               /\ UNCHANGED <<isIndexing, history, main>>
          ELSE Finish(r, "ok")
    /\ UNCHANGED <<config, watcher, scheduleTimer, connected, debounce, counters>>

\* ------------------------------------------------------------ the triggers
\* the server's start-up: "indexer.index().then(...)" runs index() to its first
\* await; the module then registers the tools and calls server.connect
Boot ==
    /\ main = "start"
    /\ main' = "indexing"
    /\ connected' = TRUE
    /\ IndexEntry("boot")
    /\ UNCHANGED <<config, watcher, scheduleTimer, debounce, db, refreshes, history>>

\* a start-up that starts the timers as soon as index() has been called
FirstIndexCalled(m) == m \in {"indexing", "then"}

\* ".then(() => { ... })": the callback runs when the promise of the first
\* index() call is resolved
FirstIndexReturned(m) == m = "then"

\* startSchedule(), called when the first index() has returned
StartSchedule ==
    /\ FirstIndexReturned(main)
    /\ main' = "watch"
    /\ scheduleTimer' = TRUE
    /\ UNCHANGED <<config, db, isIndexing, watcher, debounce, connected, run, counters, history>>

\* the watchPaths of startWatch(): the roots that exist
watchPaths(rts) ==
    (IF "maven" \in rts THEN <<MavenRoot>> ELSE <<>>) \o (IF "gradle" \in rts THEN <<GradleRoot>> ELSE <<>>)

\* startWatch(), called next: no watcher without a root, and never a second one
StartWatch ==
    /\ main = "watch"
    /\ main' = "serving"
    /\ watcher' = (watcher \/ Len(watchPaths(roots)) # 0)
    /\ UNCHANGED <<config, db, isIndexing, scheduleTimer, debounce, connected, run, counters, history>>

\* refresh(): the reset transaction, then "return this.index()"
RefreshCalled ==
    /\ connected
    /\ refreshes < MaxRefresh
    /\ refreshes' = refreshes + 1
    /\ db' = RefreshReset(db)
    /\ IndexEntry("refresh")
    /\ lastDone' = "none"
    /\ UNCHANGED <<roots, disk, normalizedIncludedPackages, timers, refSnap>>

Refresh == RefreshCalled /\ UNCHANGED call

\* triggerReindex() that arms a new timeout without cancelling the old one
clearTimeoutMissing(armed, timer) == armed

\* "if (this.debounceTimer) clearTimeout(this.debounceTimer)": the armed
\* timeouts that are left; clearing one that has fired changes nothing
clearTimeout(armed, timer) == IF timer = "pending" THEN armed - 1 ELSE armed

\* an add/addDir/unlink/unlinkDir event: triggerReindex()
WatcherEvent ==
    /\ watcher
    /\ timeouts' = clearTimeout(timeouts, debounceTimer) + 1
    /\ debounceTimer' = "pending"
    /\ burst' = IF burst < 2 THEN burst + 1 ELSE 2
    /\ UNCHANGED <<config, db, isIndexing, watcher, scheduleTimer, connected, main, run, counters, history>>

\* the armed timeouts that can expire: the one debounceTimer names, and any
\* other that is still armed
Expiring ==
    (IF debounceTimer = "pending" THEN {"named"} ELSE {})
    \cup (IF timeouts > (IF debounceTimer = "pending" THEN 1 ELSE 0) THEN {"other"} ELSE {})

\* a debounce timeout expires: its callback calls index()
DebounceExpires ==
    /\ \E t \in Expiring :
          debounceTimer' = IF t = "named" THEN "fired" ELSE debounceTimer
    /\ timeouts' = timeouts - 1
    /\ burst' = 0
    /\ IndexEntry("index")
    /\ UNCHANGED <<roots, disk, normalizedIncludedPackages, db, watcher, scheduleTimer, connected,
                   main, refreshes, history>>

DebounceFire == DebounceExpires /\ UNCHANGED call

\* the hourly interval ticks
HourlyTicks ==
    /\ scheduleTimer
    /\ IndexEntry("index")
    /\ UNCHANGED <<roots, disk, normalizedIncludedPackages, timers, db, refreshes, history>>

HourlyFire == HourlyTicks /\ UNCHANGED call

Next ==
    \/ Boot
    \/ StartSchedule
    \/ StartWatch
    \/ Refresh
    \/ WatcherEvent
    \/ DebounceFire
    \/ HourlyFire
    \/ \E r \in Runs : IndexSync(r)
    \/ \E r \in Runs : IndexFail(r)
    \/ \E r \in Runs, k \in 1..NumArtifacts : IndexArtifact(r, k)
    \/ \E r \in Runs, k \in 1..NumArtifacts : EntryStreamError(r, k)
    \/ \E r \in Runs : ChunkDone(r)

Spec == Init /\ [][Next]_vars

\* ------------------------------------------- functions called on their own
\* The scanners, the normalization of the configuration and the queries do
\* not depend on the state of a run: FnSpec calls each of them on every
\* argument of a bounded set and keeps the call.
MaxScanCoords == 5

ScanCoords == 1..MaxScanCoords

ScanPrefixes == {<<>>, <<"com.a">>, <<"com">>, <<"com.b", "org.x">>}

\* steps 1 of index() on a repository that holds the version directories of d
ScanCall ==
    /\ call = NoCall
    /\ \E S \in SUBSET ScanCoords : \E d \in [S -> {"pomOnly", "jar"}] : \E p \in ScanPrefixes :
        /\ call' = [op |-> "scan", d |-> d, prefixes |-> p,
                    result |-> ScanAll({"maven", "gradle"}, d, p)]
        /\ UNCHANGED <<roots, disk, normalizedIncludedPackages, db, isIndexing, timers, run,
                       counters, history>>

\* --------------------------------------------- Indexer.searchImplementations
LIMIT == 100

MaxFan == 101

MaxCteRounds == 8

\* UNION ALL: every row of the recursive select goes to the queue
UnionAll(seen, rows) == rows

\* UNION: a row goes to the queue only if no identical row was added before
Union(seen, rows) == rows \ seen

\* the recursive select without its join
RecursiveSelectNone(inheritance, queue) == {}

\* SELECT i.class_name, i.artifact_id FROM inheritance i JOIN hierarchy h
\* ON i.parent_class_name = h.class_name, with h the rows taken off the queue
RecursiveSelect(inheritance, queue) ==
    {[class_name |-> i.class_name, artifact_id |-> i.artifact_id] :
        i \in {x \in BagToSet(inheritance) : \E h \in queue : x.parent_class_name = h.class_name}}

\* SELECT class_name, artifact_id FROM inheritance WHERE parent_class_name = ?
InitialSelect(inheritance, className) ==
    {[class_name |-> i.class_name, artifact_id |-> i.artifact_id] :
        i \in {x \in BagToSet(inheritance) : x.parent_class_name = className}}

\* the evaluation of WITH RECURSIVE, a round at a time: the queued rows are put
\* in the table and joined, and what the join yields is queued; it ends when
\* the queue is empty. The order in which rows leave the queue does not change
\* the table. An evaluation of more than MaxCteRounds rounds is cut off and
\* reported as not done.
RECURSIVE Cte(_, _, _, _, _)
Cte(inheritance, queue, seen, table, rounds) ==
    IF queue = {} THEN [rows |-> table, done |-> TRUE]
    ELSE IF rounds >= MaxCteRounds THEN [rows |-> table, done |-> FALSE]
    ELSE LET new == Union(seen, RecursiveSelect(inheritance, queue))
         IN Cte(inheritance, new, seen \cup new, table \cup queue, rounds + 1)

hierarchy(inheritance, className) ==
    LET initial == InitialSelect(inheritance, className)
    IN Cte(inheritance, initial, initial, {}, 0)

\* SELECT DISTINCT h.class_name, a.id, ... FROM hierarchy h JOIN artifacts a ON h.artifact_id = a.id
SelectDistinct(h, artifacts) == {x \in h : x.artifact_id \in artifacts}

RECURSIVE Choose(_, _)
\* the subsets of S with k elements
Choose(S, k) ==
    IF k = 0 THEN {{}}
    ELSE UNION {{X \cup {x} : X \in Choose(S \ {x}, k - 1)} : x \in S}

\* LIMIT n without ORDER BY: any n of the rows
Limit(rows, n) ==
    IF Cardinality(rows) <= n THEN {rows}
    ELSE {rows \ X : X \in Choose(rows, Cardinality(rows) - n)}

\* resultMap: one entry per class name, with the artifacts of its rows
GroupByClass(rows) ==
    {[className |-> c, artifacts |-> {x.artifact_id : x \in {y \in rows : y.class_name = c}}] :
        c \in {x.class_name : x \in rows}}

Edge(class, parent, artifact) ==
    [artifact_id |-> artifact, class_name |-> class, parent_class_name |-> parent, type |-> "extends"]

\* inheritance rows: a cycle across two artifacts, a class in two artifacts, a chain
EdgePool ==
    {Edge("B", "A", 1), Edge("A", "B", 2), Edge("C", "B", 1), Edge("C", "B", 2),
     Edge("D", "C", 2), Edge("C", "E", 1)}

\* n classes that implement "A" in artifact 1
Fan(n) == {Edge("I" \o ToString(k), "A", 1) : k \in 1..n}

\* a bag with the given number of copies of each row
Copies(rows, n) == [x \in rows |-> n]

ImplTables ==
    {Copies(S, n) : S \in SUBSET EdgePool, n \in 1..2}
        \cup {Copies(Fan(n), 1) : n \in {LIMIT, MaxFan}}

ImplNames == {"A", "B", "E", "Z"}

ImplArtifacts == {1, 2}

\* searchImplementations(className) on an inheritance table
ImplCall ==
    /\ call = NoCall
    /\ \E inheritance \in ImplTables : \E className \in ImplNames :
        LET h == hierarchy(inheritance, className)
        IN \E rows \in Limit(SelectDistinct(h.rows, ImplArtifacts), LIMIT) :
            /\ call' = [op |-> "searchImplementations", inheritance |-> inheritance,
                        className |-> className, returned |-> h.done, threw |-> FALSE,
                        result |-> IF h.done THEN GroupByClass(rows) ELSE {}]
            /\ UNCHANGED <<roots, disk, normalizedIncludedPackages, db, isIndexing, timers, run,
                           counters, history>>

\* ------------------------------------------------------ Indexer.searchClass
UpperCase == "ABCDEFGHIJKLMNOPQRSTUVWXYZ"

LowerCase == "abcdefghijklmnopqrstuvwxyz"

Digits == "0123456789"

Contains(s, w) == \E i \in 1..(Len(s) - Len(w) + 1) : SubSeq(s, i, i + Len(w) - 1) = w

\* /[^a-zA-Z0-9]/ does not match ch
IsAlnum(ch) == Contains(UpperCase, ch) \/ Contains(LowerCase, ch) \/ Contains(Digits, ch)

\* the case folding of the trigram tokenizer
FoldChar(ch) ==
    IF Contains(UpperCase, ch)
    THEN LET i == CHOOSE k \in 1..Len(UpperCase) : SubSeq(UpperCase, k, k) = ch
         IN SubSeq(LowerCase, i, i)
    ELSE ch

RECURSIVE Fold(_)
Fold(s) == IF s = "" THEN "" ELSE FoldChar(SubSeq(s, 1, 1)) \o Fold(SubSeq(s, 2, Len(s)))

RECURSIVE ReplaceQuotes(_)
\* classNamePattern.replace(/"/g, '""')
ReplaceQuotes(s) ==
    IF s = "" THEN ""
    ELSE (IF SubSeq(s, 1, 1) = "\"" THEN "\"\"" ELSE SubSeq(s, 1, 1)) \o ReplaceQuotes(SubSeq(s, 2, Len(s)))

RECURSIVE ReadQuoted(_)
\* the text of an FTS5 string: "" between the quotes stands for one "
ReadQuoted(s) ==
    IF s = "" THEN ""
    ELSE IF StartsWith(s, "\"\"") THEN "\"" \o ReadQuoted(SubSeq(s, 3, Len(s)))
    ELSE SubSeq(s, 1, 1) \o ReadQuoted(SubSeq(s, 2, Len(s)))

RECURSIVE ReplaceNonAlnum(_)
\* classNamePattern.replace(/[^a-zA-Z0-9]/g, ' ')
ReplaceNonAlnum(s) ==
    IF s = "" THEN ""
    ELSE (IF IsAlnum(SubSeq(s, 1, 1)) THEN SubSeq(s, 1, 1) ELSE " ") \o ReplaceNonAlnum(SubSeq(s, 2, Len(s)))

RECURSIVE Words(_, _)
\* the barewords of an FTS5 query made of letters, digits and spaces
Words(s, word) ==
    IF s = "" THEN (IF word = "" THEN <<>> ELSE <<word>>)
    ELSE IF SubSeq(s, 1, 1) = " "
         THEN (IF word = "" THEN <<>> ELSE <<word>>) \o Words(SubSeq(s, 2, Len(s)), "")
         ELSE Words(SubSeq(s, 2, Len(s)), word \o SubSeq(s, 1, 1))

\* the branch that searchClass takes
Mode(classNamePattern) ==
    IF StartsWith(classNamePattern, "regex:") THEN "regex"
    ELSE IF Contains(classNamePattern, "*") \/ Contains(classNamePattern, "?") THEN "like"
    ELSE "fts"

\* the FTS5 operators; they are case sensitive
Operators == {"AND", "OR", "NOT"}

\* a token of the parsed query: an operator or a phrase
Op(name) == [op |-> name]

Phrase(text) == [phrase |-> text]

IsOp(t) == "op" \in DOMAIN t

\* the query string, as FTS5 reads it: the quoted pattern as a prefix phrase,
\* then OR and the barewords of safeQuery if there are any
QueryTokens(classNamePattern) ==
    LET escapedPattern == ReplaceQuotes(classNamePattern)
        safeQuery == Trim(ReplaceNonAlnum(classNamePattern))
        words == Words(safeQuery, "")
        quoted == Phrase(ReadQuoted(escapedPattern))
    IN IF Len(safeQuery) > 0
       THEN <<quoted, Op("OR")>> \o
            [k \in 1..Len(words) |-> IF words[k] \in Operators THEN Op(words[k]) ELSE Phrase(words[k])]
       ELSE <<quoted>>

\* fts5: syntax error: an operator without a phrase on both sides
SyntaxError(tokens) ==
    \/ IsOp(tokens[1])
    \/ IsOp(tokens[Len(tokens)])
    \/ \E k \in 1..(Len(tokens) - 1) : IsOp(tokens[k]) /\ IsOp(tokens[k + 1])

\* the trigram tokenizer gives a text of fewer than three characters no token
HasTokens(text) == Len(text) >= 3

\* a phrase of trigrams matches a column that contains its text, whatever the case
PhraseMatches(text, row) ==
    \/ Contains(Fold(row.class_name), Fold(text))
    \/ Contains(Fold(row.simple_name), Fold(text))

LastOp(tokens, name) ==
    LET at == {k \in 1..Len(tokens) : tokens[k] = Op(name)}
    IN IF at = {} THEN 0 ELSE CHOOSE k \in at : \A j \in at : j <= k

\* phrases in a row are an implicit AND; a phrase without tokens is dropped from
\* it, and an AND of no phrase matches nothing
ImplicitAnd(tokens, row) ==
    LET live == {k \in 1..Len(tokens) : HasTokens(tokens[k].phrase)}
    IN live # {} /\ \A k \in live : PhraseMatches(tokens[k].phrase, row)

RECURSIVE MatchNot(_, _)
MatchNot(tokens, row) ==
    LET k == LastOp(tokens, "NOT")
    IN IF k = 0 THEN ImplicitAnd(tokens, row)
       ELSE MatchNot(SubSeq(tokens, 1, k - 1), row) /\ ~ImplicitAnd(SubSeq(tokens, k + 1, Len(tokens)), row)

RECURSIVE MatchAnd(_, _)
MatchAnd(tokens, row) ==
    LET k == LastOp(tokens, "AND")
    IN IF k = 0 THEN MatchNot(tokens, row)
       ELSE MatchAnd(SubSeq(tokens, 1, k - 1), row) /\ MatchNot(SubSeq(tokens, k + 1, Len(tokens)), row)

RECURSIVE Match(_, _)
\* classes_fts MATCH query: OR binds loosest, then AND, then NOT
Match(tokens, row) ==
    LET k == LastOp(tokens, "OR")
    IN IF k = 0 THEN MatchAnd(tokens, row)
       ELSE Match(SubSeq(tokens, 1, k - 1), row) \/ MatchAnd(SubSeq(tokens, k + 1, Len(tokens)), row)

\* what running a statement comes to: rows, or an exception
Returned(rows) == [threw |-> FALSE, rows |-> rows]

Thrown == [threw |-> TRUE, rows |-> {}]

\* a query body without its try and catch
TryCatchMissing(outcome) == outcome

\* try { ... } catch (e) { console.error(...); return []; }
TryCatch(outcome) == IF outcome.threw THEN Returned({}) ELSE outcome

\* SELECT c.class_name, a.id, ... FROM classes_fts c JOIN artifacts a ON c.artifact_id = a.id
\* WHERE <where> LIMIT 100, the rows as [class_name, artifact_id]
ClassSelect(classes_fts, artifacts, where(_)) ==
    {Returned(rows) :
        rows \in Limit({[class_name |-> c.class_name, artifact_id |-> c.artifact_id] :
                           c \in {x \in BagToSet(classes_fts) : x.artifact_id \in artifacts /\ where(x)}},
                       LIMIT)}

\* the rows of the FTS branch; a syntax error is thrown by the statement.
\* ORDER BY rank decides which rows LIMIT keeps when more than LIMIT rows match.
FtsRows(classes_fts, artifacts, classNamePattern) ==
    LET query == QueryTokens(classNamePattern)
        where(x) == Match(query, x)
    IN IF SyntaxError(query) THEN {Thrown}
       ELSE ClassSelect(classes_fts, artifacts, where)

\* new RegExp(regex) throws a SyntaxError: a group or a class that is not
\* closed, a ")" that closes nothing, a "*" with nothing to repeat
RECURSIVE ParensBalanced(_, _)
ParensBalanced(s, depth) ==
    IF s = "" THEN depth = 0
    ELSE IF SubSeq(s, 1, 1) = "(" THEN ParensBalanced(SubSeq(s, 2, Len(s)), depth + 1)
    ELSE IF SubSeq(s, 1, 1) = ")" THEN depth > 0 /\ ParensBalanced(SubSeq(s, 2, Len(s)), depth - 1)
    ELSE ParensBalanced(SubSeq(s, 2, Len(s)), depth)

RegExpSyntaxError(regex) ==
    \/ ~ParensBalanced(regex, 0)
    \/ \E i \in 1..Len(regex) :
          /\ SubSeq(regex, i, i) = "["
          /\ ~\E j \in (i + 1)..Len(regex) : SubSeq(regex, j, j) = "]"
    \/ \E i \in 1..Len(regex) :
          /\ SubSeq(regex, i, i) = "*"
          /\ (i = 1 \/ SubSeq(regex, i - 1, i - 1) \in {"*", "^", "("})

\* RegExp.prototype.test for patterns made of literals, ".", "*", a leading "^"
\* and a trailing "$"
RECURSIVE MatchHere(_, _)
MatchHere(regex, text) ==
    IF regex = "" THEN TRUE
    ELSE IF Len(regex) >= 2 /\ SubSeq(regex, 2, 2) = "*"
         THEN \E k \in 0..Len(text) :
                 /\ \A j \in 1..k : SubSeq(regex, 1, 1) \in {".", SubSeq(text, j, j)}
                 /\ MatchHere(SubSeq(regex, 3, Len(regex)), SubSeq(text, k + 1, Len(text)))
    ELSE IF regex = "$" THEN text = ""
    ELSE /\ text # ""
         /\ SubSeq(regex, 1, 1) \in {".", SubSeq(text, 1, 1)}
         /\ MatchHere(SubSeq(regex, 2, Len(regex)), SubSeq(text, 2, Len(text)))

RegExpTest(regex, text) ==
    IF StartsWith(regex, "^") THEN MatchHere(SubSeq(regex, 2, Len(regex)), text)
    ELSE \E i \in 1..(Len(text) + 1) : MatchHere(regex, SubSeq(text, i, Len(text)))

\* the SQL function regexp(regex, text): its own catch turns a SyntaxError into 0
regexp(regex, text) ==
    IF regex = "" \/ text = "" THEN 0
    ELSE IF RegExpSyntaxError(regex) THEN 0
    ELSE IF RegExpTest(regex, text) THEN 1 ELSE 0

\* the rows of the regex branch: class_name REGEXP ? OR simple_name REGEXP ?
RegexRows(classes_fts, artifacts, classNamePattern) ==
    LET regex == SubSeq(classNamePattern, 7, Len(classNamePattern))
        where(x) == regexp(regex, x.class_name) = 1 \/ regexp(regex, x.simple_name) = 1
    IN ClassSelect(classes_fts, artifacts, where)

\* text LIKE pattern: "%" stands for any characters, "_" for one, letters match
\* whatever their case
RECURSIVE Like(_, _)
Like(text, pattern) ==
    IF pattern = "" THEN text = ""
    ELSE IF SubSeq(pattern, 1, 1) = "%"
         THEN \E k \in 0..Len(text) : Like(SubSeq(text, k + 1, Len(text)), SubSeq(pattern, 2, Len(pattern)))
    ELSE /\ text # ""
         /\ (SubSeq(pattern, 1, 1) = "_" \/ FoldChar(SubSeq(pattern, 1, 1)) = FoldChar(SubSeq(text, 1, 1)))
         /\ Like(SubSeq(text, 2, Len(text)), SubSeq(pattern, 2, Len(pattern)))

\* the rows of the glob branch: class_name LIKE ? OR simple_name LIKE ?
LikeRows(classes_fts, artifacts, classNamePattern) ==
    LET likePattern == ReplaceAll(ReplaceAll(classNamePattern, "*", "%"), "?", "_")
        where(x) == Like(x.class_name, likePattern) \/ Like(x.simple_name, likePattern)
    IN ClassSelect(classes_fts, artifacts, where)

\* Indexer.search: the artifacts whose group_id or artifact_id is LIKE
\* %query%, LIMIT 50 with no ORDER BY
search(store, query) ==
    Limit({[id |-> a.id, groupId |-> a.groupId, artifactId |-> a.artifactId, version |-> a.version,
            abspath |-> a.abspath, hasSource |-> a.hasSource] :
              a \in {store.artifacts[k] : k \in {n \in 1..Len(store.artifacts) :
                        \/ Like(store.artifacts[n].groupId, "%" \o query \o "%")
                        \/ Like(store.artifacts[n].artifactId, "%" \o query \o "%")}}}, 50)

\* searchClass(classNamePattern): what it comes to, grouped by class name
searchClass(classes_fts, artifacts, classNamePattern) ==
    LET mode == Mode(classNamePattern)
        statement == IF mode = "regex" THEN RegexRows(classes_fts, artifacts, classNamePattern)
                     ELSE IF mode = "like" THEN LikeRows(classes_fts, artifacts, classNamePattern)
                     ELSE FtsRows(classes_fts, artifacts, classNamePattern)
    IN {TryCatch(o) : o \in statement}

\* searchResources(pattern): SELECT r.path, a.id, ... FROM resources r JOIN artifacts a
\* ON r.artifact_id = a.id WHERE r.path LIKE '%pattern%' LIMIT 100; the result
\* as a bag of [path, artifact]
searchResources(store, pattern) ==
    LET hits == {r \in store.resources :
                    r.artifact_id \in 1..Len(store.artifacts) /\ Like(r.path, "%" \o pattern \o "%")}
        proj(r) == [path |-> r.path, artifact |-> r.artifact_id]
    IN {TryCatch(Returned([e \in {proj(r) : r \in rows} |-> Cardinality({r \in rows : proj(r) = e})])) :
           rows \in Limit(hits, LIMIT)}

\* getResourcesForClass(className): SELECT r.path, r.content, r.type FROM resource_classes rc
\* JOIN resources r ON rc.resource_id = r.id WHERE rc.class_name = ?; the result
\* as a bag of [path, content, type]
getResourcesForClass(store, className) ==
    LET links == {l \in BagToSet(store.resource_classes) :
                     l.class_name = className /\ \E r \in store.resources : r.id = l.resource_id}
        owner(l) == CHOOSE r \in store.resources : r.id = l.resource_id
        proj(l) == [path |-> owner(l).path, content |-> owner(l).content, type |-> owner(l).type]
    IN TryCatch(Returned([e \in {proj(l) : l \in links} |->
                             SumCopies(store.resource_classes, {l \in links : proj(l) = e})]))

RECURSIVE IndexAll(_, _, _, _)
\* indexArtifactClasses on each artifact of a list, one after the other
IndexAll(store, d, arts, normalizedPatterns) ==
    IF arts = <<>> THEN store
    ELSE IndexAll(indexArtifactClasses(store, d, Head(arts), normalizedPatterns), d, Tail(arts),
                  normalizedPatterns)

\* the store after index() on a disk of jars
StoreOf(d) ==
    LET synced == UpsertAll(EmptyDB, ScanAll({"maven", "gradle"}, d, <<>>))
    IN IndexAll(synced, d, findUnindexed(synced), <<>>)

QueryStores == {StoreOf([c \in S |-> "jar"]) : S \in SUBSET (1..3)}

\* path fragments and class names, with the characters that regular
\* expressions, globs and FTS queries give a meaning to
QueryTerms == {"proto", "foo.proto", "o_b", "%", "(", "*", "AND", "a.FooBar", "com.a.Foo", "a.FooBar.Msg", "\""}

SearchResourcesCall ==
    /\ call = NoCall
    /\ \E store \in QueryStores : \E pattern \in QueryTerms :
        \E o \in searchResources(store, pattern) :
            /\ call' = [op |-> "searchResources", store |-> store, pattern |-> pattern,
                        threw |-> o.threw, result |-> o.rows]
            /\ UNCHANGED <<roots, disk, normalizedIncludedPackages, db, isIndexing, timers, run,
                           counters, history>>

GetResourcesForClassCall ==
    /\ call = NoCall
    /\ \E store \in QueryStores : \E className \in QueryTerms :
        LET o == getResourcesForClass(store, className)
        IN /\ call' = [op |-> "getResourcesForClass", store |-> store, className |-> className,
                       threw |-> o.threw, result |-> o.rows]
           /\ UNCHANGED <<roots, disk, normalizedIncludedPackages, db, isIndexing, timers, run,
                          counters, history>>

\* ------------------------------------------------------- ArtifactResolver
IsDigit(ch) == Contains(Digits, ch)

AllDigits(s) == s # "" /\ \A i \in 1..Len(s) : IsDigit(SubSeq(s, i, i))

RECURSIVE ParseInt(_)
ParseInt(s) ==
    IF s = "" THEN 0
    ELSE 10 * ParseInt(SubSeq(s, 1, Len(s) - 1)) + (CodeOf(SubSeq(s, Len(s), Len(s))) - CodeOf("0"))

\* position of the first occurrence of ch in s, 0 when there is none
IndexOf(s, ch) ==
    LET hits == {i \in 1..Len(s) : SubSeq(s, i, i) = ch}
    IN IF hits = {} THEN 0 ELSE CHOOSE i \in hits : \A j \in hits : i <= j

RECURSIVE Split(_, _)
Split(s, ch) ==
    LET i == IndexOf(s, ch)
    IN IF i = 0 THEN <<s>> ELSE <<SubSeq(s, 1, i - 1)>> \o Split(SubSeq(s, i + 1, Len(s)), ch)

\* the digits at the start of s
RECURSIVE LeadingDigits(_)
LeadingDigits(s) ==
    IF s # "" /\ IsDigit(SubSeq(s, 1, 1))
    THEN SubSeq(s, 1, 1) \o LeadingDigits(SubSeq(s, 2, Len(s)))
    ELSE ""

NoVersion == [ok |-> FALSE, main |-> <<0, 0, 0>>, prerelease |-> <<>>]

RECURSIVE CoerceTail(_, _)
\* the n numbers that follow in rest, each as ".number"; 0 for those missing
CoerceTail(rest, n) ==
    IF n = 0 THEN <<>>
    ELSE LET digits == IF StartsWith(rest, ".") THEN LeadingDigits(SubSeq(rest, 2, Len(rest))) ELSE ""
         IN IF digits = "" THEN [k \in 1..n |-> 0]
            ELSE <<ParseInt(digits)>> \o CoerceTail(SubSeq(rest, 2 + Len(digits), Len(rest)), n - 1)

\* the version read from s, which starts with a digit
CoerceAt(s) ==
    LET major == LeadingDigits(s)
    IN [ok |-> TRUE,
        main |-> <<ParseInt(major)>> \o CoerceTail(SubSeq(s, Len(major) + 1, Len(s)), 2),
        prerelease |-> <<>>]

\* semver.coerce(version): the first number of the string with up to two
\* ".number" after it, as major.minor.patch; null without a digit
coerce(version) ==
    LET starts == {i \in 1..Len(version) : IsDigit(SubSeq(version, i, i))}
    IN IF starts = {} THEN NoVersion
       ELSE CoerceAt(SubSeq(version, CHOOSE k \in starts : \A j \in starts : k <= j, Len(version)))

\* a numeric identifier: digits without a leading zero
NumericId(s) == AllDigits(s) /\ (Len(s) = 1 \/ SubSeq(s, 1, 1) # "0")

\* an identifier of a pre-release or of build metadata: letters, digits, hyphens
Identifier(s) ==
    s # "" /\ \A i \in 1..Len(s) : IsAlnum(SubSeq(s, i, i)) \/ SubSeq(s, i, i) = "-"

\* s up to the first ch, all of s when there is none
Before(s, ch) == IF IndexOf(s, ch) = 0 THEN s ELSE SubSeq(s, 1, IndexOf(s, ch) - 1)

\* the dot-separated identifiers after the first ch of s, none without ch
IdentifiersAfter(s, ch) ==
    IF IndexOf(s, ch) = 0 THEN <<>> ELSE Split(SubSeq(s, IndexOf(s, ch) + 1, Len(s)), ".")

\* the version of three numbers, pre-release and build identifiers, or null
ParseParts(core, prerelease, build) ==
    IF /\ Len(core) = 3
       /\ \A k \in 1..3 : NumericId(core[k])
       /\ \A k \in 1..Len(prerelease) :
             Identifier(prerelease[k]) /\ (AllDigits(prerelease[k]) => NumericId(prerelease[k]))
       /\ \A k \in 1..Len(build) : Identifier(build[k])
    THEN [ok |-> TRUE, main |-> [k \in 1..3 |-> ParseInt(core[k])], prerelease |-> prerelease]
    ELSE NoVersion

\* semver.parse(version): [v]major.minor.patch[-prerelease][+build], or null
parse(version) ==
    LET plain == IF StartsWith(version, "v") THEN SubSeq(version, 2, Len(version)) ELSE version
    IN ParseParts(Split(Before(Before(plain, "+"), "-"), "."),
                  IdentifiersAfter(Before(plain, "+"), "-"),
                  IdentifiersAfter(plain, "+"))

\* semver.valid(version)
valid(version) == parse(version).ok

\* compareIdentifiers: numbers by value and before names, names by code units
CompareIdentifiers(a, b) ==
    IF AllDigits(a) /\ AllDigits(b)
    THEN (IF ParseInt(a) < ParseInt(b) THEN -1 ELSE IF ParseInt(a) > ParseInt(b) THEN 1 ELSE 0)
    ELSE IF AllDigits(a) THEN -1
    ELSE IF AllDigits(b) THEN 1
    ELSE IF StringLess(a, b) THEN -1 ELSE IF StringLess(b, a) THEN 1 ELSE 0

RECURSIVE ComparePre(_, _)
\* SemVer.comparePre: a version without pre-release is the greater one
ComparePre(a, b) ==
    IF a = <<>> /\ b = <<>> THEN 0
    ELSE IF a = <<>> THEN 1
    ELSE IF b = <<>> THEN -1
    ELSE IF CompareIdentifiers(Head(a), Head(b)) # 0 THEN CompareIdentifiers(Head(a), Head(b))
    ELSE IF Len(a) = 1 /\ Len(b) = 1 THEN 0
    ELSE IF Len(a) = 1 THEN -1
    ELSE IF Len(b) = 1 THEN 1
    ELSE ComparePre(Tail(a), Tail(b))

\* semver.compare on parsed versions
compare(a, b) ==
    IF a.main[1] # b.main[1] THEN (IF a.main[1] < b.main[1] THEN -1 ELSE 1)
    ELSE IF a.main[2] # b.main[2] THEN (IF a.main[2] < b.main[2] THEN -1 ELSE 1)
    ELSE IF a.main[3] # b.main[3] THEN (IF a.main[3] < b.main[3] THEN -1 ELSE 1)
    ELSE ComparePre(a.prerelease, b.prerelease)

\* semver.rcompare
rcompare(a, b) == compare(b, a)

compareSemver(a, b) ==
    LET vA == coerce(a.version)
        vB == coerce(b.version)
    IN IF vA.ok /\ vB.ok /\ rcompare(vA, vB) # 0 THEN rcompare(vA, vB)
       ELSE IF valid(a.version) /\ valid(b.version)
            THEN rcompare(parse(a.version), parse(b.version))
       ELSE b.id - a.id

\* getArtifactPublishTime: the newest lastUpdated stamp of the .lastUpdated
\* file when there is one, else the mtime of the jar
getArtifactPublishTime(a) == IF a.lastUpdated > 0 THEN a.lastUpdated ELSE a.mtime

compareLatestPublished(a, b) == getArtifactPublishTime(b) - getArtifactPublishTime(a)

\* getArtifactFileTime(artifact, 'birthtime')
compareLatestUsed(a, b) == b.birthtime - a.birthtime

VersionStrategy == {"semver", "latest-published", "latest-used"}

comparator(strategy, a, b) ==
    IF strategy = "latest-published" THEN compareLatestPublished(a, b)
    ELSE IF strategy = "latest-used" THEN compareLatestUsed(a, b)
    ELSE compareSemver(a, b)

\* step 1 of the comparison left out
SourceFirstMissing(a, b) == 0

\* "if (a.hasSource !== b.hasSource) return a.hasSource ? -1 : 1", 0 standing
\* for "go on to step 2"
SourceFirst(a, b) == IF a.hasSource # b.hasSource THEN (IF a.hasSource THEN -1 ELSE 1) ELSE 0

\* the function given to sort()
Compare(strategy, a, b) ==
    IF SourceFirst(a, b) # 0 THEN SourceFirst(a, b) ELSE comparator(strategy, a, b)

\* Array.prototype.sort as V8 runs it on fewer than 64 elements: the run at
\* the start of the array is found (and reversed if it descends), then the
\* other elements are inserted by binary search.
RECURSIVE CountRun(_, _, _, _)
CountRun(strategy, list, descending, n) ==
    IF n >= Len(list) THEN n
    ELSE LET order == Compare(strategy, list[n + 1], list[n])
         IN IF (descending /\ order >= 0) \/ (~descending /\ order < 0) THEN n
            ELSE CountRun(strategy, list, descending, n + 1)

Reverse(list) == [k \in 1..Len(list) |-> list[Len(list) + 1 - k]]

RECURSIVE BinarySearch(_, _, _, _, _)
\* the number of elements of sorted that stay before pivot
BinarySearch(strategy, sorted, pivot, left, right) ==
    IF left >= right THEN left
    ELSE LET mid == left + ((right - left) \div 2)
         IN IF Compare(strategy, pivot, sorted[mid + 1]) < 0
            THEN BinarySearch(strategy, sorted, pivot, left, mid)
            ELSE BinarySearch(strategy, sorted, pivot, mid + 1, right)

RECURSIVE BinaryInsertionSort(_, _, _)
BinaryInsertionSort(strategy, sorted, rest) ==
    IF rest = <<>> THEN sorted
    ELSE LET left == BinarySearch(strategy, sorted, Head(rest), 0, Len(sorted))
         IN BinaryInsertionSort(strategy,
                                SubSeq(sorted, 1, left) \o <<Head(rest)>> \o SubSeq(sorted, left + 1, Len(sorted)),
                                Tail(rest))

Sort(strategy, list) ==
    IF Len(list) < 2 THEN list
    ELSE LET descending == Compare(strategy, list[2], list[1]) < 0
             n == CountRun(strategy, list, descending, 2)
             start == IF descending THEN Reverse(SubSeq(list, 1, n)) ELSE SubSeq(list, 1, n)
         IN BinaryInsertionSort(strategy, start, SubSeq(list, n + 1, Len(list)))

NoArtifact == [id |-> 0]

\* resolveBestArtifact(artifacts) under a configured strategy
resolveBestArtifact(strategy, artifacts) ==
    IF Len(artifacts) = 0 THEN NoArtifact ELSE Sort(strategy, artifacts)[1]

MaxCandidates == 3

Candidate(id, hasSource, version, mtime, lastUpdated, birthtime) ==
    [id |-> id, hasSource |-> hasSource, version |-> version, mtime |-> mtime,
     lastUpdated |-> lastUpdated, birthtime |-> birthtime]

\* artifacts that hold one class: releases, snapshots, a two-part version, a
\* version without a number, with and without sources, of several ages
CandidatePool ==
    {Candidate(1, FALSE, "1.2.0", 2, 0, 1), Candidate(2, FALSE, "1.2", 1, 0, 2),
     Candidate(3, FALSE, "1.2.0-SNAPSHOT", 2, 0, 3), Candidate(4, TRUE, "1.0.0", 1, 0, 1),
     Candidate(5, FALSE, "2.0.0", 1, 3, 1), Candidate(6, TRUE, "1.0.0", 1, 0, 1),
     Candidate(7, FALSE, "beta", 3, 0, 2), Candidate(8, FALSE, "1.2-SNAPSHOT", 2, 1, 3)}

\* the lists of up to MaxCandidates different artifacts
CandidateLists ==
    UNION {{l \in [1..n -> CandidatePool] : \A i, j \in 1..n : i # j => l[i] # l[j]} : n \in 0..MaxCandidates}

ResolveCall ==
    /\ call = NoCall
    /\ \E strategy \in VersionStrategy : \E artifacts \in CandidateLists :
        /\ call' = [op |-> "resolveBestArtifact", strategy |-> strategy, artifacts |-> artifacts,
                    result |-> resolveBestArtifact(strategy, artifacts)]
        /\ UNCHANGED <<roots, disk, normalizedIncludedPackages, db, isIndexing, timers, run,
                       counters, history>>

\* rows of classes_fts: a class, a class whose name extends it, a class in
\* another package, a class named like an FTS5 operator, a class with a short
\* name in the default package
ClassPool ==
    {ClassRow(1, "com.a.Foo"), ClassRow(2, "com.a.Foo"), ClassRow(1, "com.a.FooBar"),
     ClassRow(2, "org.x.foo"), ClassRow(1, "com.a.OR"), ClassRow(2, "Ab")}

ClassTables == {Copies(S, 1) : S \in SUBSET ClassPool}

\* class names, keywords, regular expressions and globs, well formed or not
ClassPatterns ==
    {"com.a.Foo", "com.a.FooBar", "org.x.foo", "com.a.OR", "Ab", "Foo", "AND",
     "regex:Fo*B", "regex:^com.a", "regex:Foo$", "regex:", "regex:(", "regex:*", "regex:[",
     "com.a.F*", "F?o", "*"}

\* searchClass(classNamePattern)
SearchClassCall ==
    /\ call = NoCall
    /\ \E classes_fts \in ClassTables : \E classNamePattern \in ClassPatterns :
        \E o \in searchClass(classes_fts, ImplArtifacts, classNamePattern) :
            /\ call' = [op |-> "searchClass", classes_fts |-> classes_fts,
                        classNamePattern |-> classNamePattern, threw |-> o.threw,
                        result |-> GroupByClass(o.rows)]
            /\ UNCHANGED <<roots, disk, normalizedIncludedPackages, db, isIndexing, timers, run,
                           counters, history>>

MaxPatterns == 3

\* entries of includedPackages
PatternPool == {"", " ", "*", "com.a", "com.a.*", " com.a.b", "com.a-b", "org.x"}

\* Config.load: this.normalizedIncludedPackages = this.normalizeScanPatterns(this.includedPackages)
NormalizeCall ==
    /\ call = NoCall
    /\ \E n \in 0..MaxPatterns : \E patterns \in [1..n -> PatternPool] :
        /\ call' = [op |-> "normalize", patterns |-> patterns, result |-> normalizeScanPatterns(patterns)]
        /\ UNCHANGED <<roots, disk, normalizedIncludedPackages, db, isIndexing, timers, run,
                       counters, history>>

\* ------------------------------------------------ class detail (resolveOne)
\* the class get_class_details is asked for
DetailClass == "com.a.Foo"

DetailTypes == {"signatures", "docs", "source"}

\* what CFR prints for a jar that does not hold the class: the decompiled
\* text cannot be there, so it writes to stderr only, or writes nothing
CfrOutcomes == {"stderr", "silent"}

\* the sources jar of a coordinate, where the repository layout puts it
SourcesJarPath(c) ==
    LET name == Coordinate(c).artifactId \o "-" \o Coordinate(c).version \o "-sources.jar"
    IN IF Coordinate(c).layout = "maven" THEN PathJoin(MavenDir(c), name)
       ELSE PathJoin(PathJoin(GradleVersionDir(c), "h2"), name)

\* the jars of coordinate c as path and entry names: the main jar with its
\* class files (and the .java file when sources are bundled), and the sources
\* jar when the coordinate has one
JarFiles(c, sourceEntries, bundled) ==
    {[path |-> MainJarPath(c),
      entries |-> {ReplaceAll(Archive(c).classes[k].className, ".", "/") \o ".class" :
                      k \in {i \in 1..Len(Archive(c).classes) : Archive(c).classes[i].ok}}
                  \cup (IF bundled THEN {ReplaceAll(DetailClass, ".", "/") \o ".java"} ELSE {})]}
    \cup (IF Coordinate(c).sources
          THEN {[path |-> SourcesJarPath(c), entries |-> sourceEntries]}
          ELSE {})

\* the entries of the jar at jarPath; none when yauzl.open fails
EntriesOf(files, jarPath) ==
    UNION {f.entries : f \in {g \in files : g.path = jarPath}}

\* no class detail
Null == [found |-> FALSE, source |-> FALSE, via |-> "none"]

\* SourceParser.parse: only a 'source' request gets a source field
parseSource(type, via) == [found |-> TRUE, source |-> type = "source", via |-> via]

\* what one getClassDetail call yields: the detail, whether it threw, and the
\* jars the decompiler was run on
Outcome(detail, threw, decompiled) == [detail |-> detail, threw |-> threw, decompiled |-> decompiled]

getSignaturesWithJavap(files, jarPath, className) ==
    IF (ReplaceAll(className, ".", "/") \o ".class") \in EntriesOf(files, jarPath)
    THEN Outcome([found |-> TRUE, source |-> FALSE, via |-> "javap"], FALSE, {})
    ELSE Outcome(Null, FALSE, {})

decompileClass(files, jarPath, className, type, cfr) ==
    LET out == IF (ReplaceAll(className, ".", "/") \o ".class") \in EntriesOf(files, jarPath)
               THEN "text" ELSE cfr
    IN CASE out = "text" -> Outcome(parseSource(type, "decompiler"), FALSE, {jarPath})
         [] out = "stderr" -> Outcome(Null, TRUE, {jarPath})
         [] OTHER -> Outcome([found |-> TRUE, source |-> FALSE, via |-> "decompiler"], FALSE, {jarPath})

getClassDetail(files, jarPath, className, type, cfr) ==
    LET basePath == ReplaceAll(className, ".", "/")
        candidates == {basePath \o ".java", basePath \o ".kt"}
    IN IF type = "signatures" THEN getSignaturesWithJavap(files, jarPath, className)
       ELSE IF EntriesOf(files, jarPath) \cap candidates # {}
            THEN Outcome(parseSource(type, "archive"), FALSE, {})
            ELSE decompileClass(files, jarPath, className, type, cfr)

\* the detail a try block around getClassDetail leaves in `detail`
Caught(outcome) == IF outcome.threw THEN Null ELSE outcome.detail

resolveOne(files, artifact, clsName, type, cfr) ==
    LET sourceJarPath == PathJoin(artifact.abspath,
                                  artifact.artifactId \o "-" \o artifact.version \o "-sources.jar")
        mainJarPath == IF EndsWith(artifact.abspath, ".jar") THEN artifact.abspath
                       ELSE PathJoin(artifact.abspath,
                                     artifact.artifactId \o "-" \o artifact.version \o ".jar")
        first == IF type # "signatures" /\ artifact.hasSource
                 THEN getClassDetail(files, sourceJarPath, clsName, type, cfr)
                 ELSE Outcome(Null, FALSE, {})
        second == getClassDetail(files, mainJarPath, clsName, type, cfr)
    IN IF Caught(first).found
       THEN [detail |-> Caught(first), usedDecompilation |-> FALSE, decompiled |-> first.decompiled]
       ELSE [detail |-> Caught(second),
             usedDecompilation |-> type # "signatures" /\ Caught(second).found /\ Caught(second).source,
             decompiled |-> first.decompiled \cup second.decompiled]

\* the coordinates get_class_details is tried on: Maven and Gradle layout,
\* each with and without a sources jar
DetailCoords == 1..4

\* get_class_details for DetailClass on the scanned artifact of coordinate c
ResolveOneCall ==
    /\ call = NoCall
    /\ \E c \in DetailCoords : \E type \in DetailTypes : \E cfr \in CfrOutcomes :
       \E sourceHasClass, bundled \in BOOLEAN :
        LET artifact == ScanAll({"maven", "gradle"}, [x \in {c} |-> "jar"], <<>>)[1]
            sourceEntries == IF sourceHasClass THEN {ReplaceAll(DetailClass, ".", "/") \o ".java"}
                             ELSE {"META-INF/MANIFEST.MF"}
            files == JarFiles(c, sourceEntries, bundled)
        IN /\ call' = [op |-> "resolveOne", artifact |-> artifact, type |-> type,
                       hasSourceArchive |-> Coordinate(c).sources,
                       sourceHasClass |-> Coordinate(c).sources /\ sourceHasClass,
                       bundled |-> bundled,
                       result |-> resolveOne(files, artifact, DetailClass, type, cfr)]
           /\ UNCHANGED <<roots, disk, normalizedIncludedPackages, db, isIndexing, timers, run,
                          counters, history>>

\* ------------------------------------------------------ the artifact upsert
MaxUpsert == 2

\* what the scanners push for coordinates 1 and 2 when the Maven root, the
\* Gradle cache, or both hold them, with and without a sources jar
ScannedPool ==
    UNION {{MavenLeaf(MavenRoot, MavenDir(c), TRUE)[1], MavenLeaf(MavenRoot, MavenDir(c), FALSE)[1],
            GradleVersion(c, GradleFiles(c, "jar"))[1]} : c \in 1..2}

\* stores of an earlier run: empty, or one scanned artifact, indexed or not
UpsertStores ==
    {EmptyDB} \cup UNION {{insertArtifact(EmptyDB, a), MarkIndexed(insertArtifact(EmptyDB, a), 1)} :
                             a \in ScannedPool}

\* step 2 of index(): the transaction that runs insertArtifact on every
\* scanned artifact
UpsertCall ==
    /\ call = NoCall
    /\ \E store \in UpsertStores : \E n \in 0..MaxUpsert : \E artifacts \in [1..n -> ScannedPool] :
        /\ call' = [op |-> "upsert", store |-> store, artifacts |-> artifacts,
                    result |-> UpsertAll(store, artifacts)]
        /\ UNCHANGED <<roots, disk, normalizedIncludedPackages, db, isIndexing, timers, run,
                       counters, history>>

\* ------------------------------------------------- ClassParser (class files)
\* A class file is a sequence of bytes 0..255. readUInt8/readUInt16BE throw a
\* RangeError when the read leaves the buffer; adding to offset never throws.
InRange(buffer, offset, n) == offset + n <= Len(buffer)

readU1(buffer, offset) == buffer[offset + 1]

readU2(buffer, offset) == buffer[offset + 1] * 256 + buffer[offset + 2]

\* the four bytes readU4 combines; 0xCAFEBABE is compared byte by byte
readU4(buffer, offset) == SubSeq(buffer, offset + 1, offset + 4)

MAGIC == <<202, 254, 186, 190>>

\* the ASCII characters class names are made of, by code
Chr(b) ==
    IF b >= 97 /\ b <= 122 THEN SubSeq(Lower, b - 96, b - 96)
    ELSE IF b >= 65 /\ b <= 90 THEN SubSeq(Upper, b - 64, b - 64)
    ELSE IF b = 47 THEN "/"
    ELSE IF b = 46 THEN "."
    ELSE IF b = 36 THEN "$"
    ELSE "?"

Ord(ch) == CHOOSE b \in 36..122 : Chr(b) = ch

\* buffer.toString('utf-8', start, end): end is clamped to the buffer
RECURSIVE BufferToString(_, _, _)
BufferToString(buffer, start, end) ==
    IF start >= end \/ start >= Len(buffer) THEN ""
    ELSE Chr(buffer[start + 1]) \o BufferToString(buffer, start + 1, end)

ParseFailed == [ok |-> FALSE, className |-> "", superClass |-> "", interfaces |-> <<>>]

PoolFailed == [threw |-> TRUE, offset |-> 0, pool |-> <<>>]

\* the bytes the switch skips after the tag of an entry it does not keep,
\* -1 for a tag of the default branch
SkipOf(tag) ==
    CASE tag \in {3, 4} -> 4
      [] tag \in {5, 6} -> 8
      [] tag = 8 -> 2
      [] tag \in {9, 10, 11, 12} -> 4
      [] tag = 15 -> 3
      [] tag = 16 -> 2
      [] tag \in {17, 18} -> 4
      [] tag \in {19, 20} -> 2
      [] OTHER -> -1

\* an entry that takes one index where the code takes two
NextIndexOneSlot(i, tag) == i + 1

\* the loop's i++ together with the i++ of the Long/Double branch
NextIndex(i, tag) == IF tag \in {5, 6} THEN i + 2 ELSE i + 1

\* the for loop over the constant pool, at index i with the cursor at offset
RECURSIVE ReadConstantPool(_, _, _, _, _)
ReadConstantPool(buffer, offset, i, cpCount, pool) ==
    IF i >= cpCount THEN [threw |-> FALSE, offset |-> offset, pool |-> pool]
    ELSE IF ~InRange(buffer, offset, 1) THEN PoolFailed
    ELSE IF readU1(buffer, offset) = 1
    THEN IF ~InRange(buffer, offset + 1, 2) THEN PoolFailed
         ELSE ReadConstantPool(buffer, offset + 3 + readU2(buffer, offset + 1), i + 1, cpCount,
                  pool @@ (i :> [tag |-> 1, nameIndex |-> 0,
                                 value |-> BufferToString(buffer, offset + 3,
                                               offset + 3 + readU2(buffer, offset + 1))]))
    ELSE IF readU1(buffer, offset) = 7
    THEN IF ~InRange(buffer, offset + 1, 2) THEN PoolFailed
         ELSE ReadConstantPool(buffer, offset + 3, i + 1, cpCount,
                  pool @@ (i :> [tag |-> 7, nameIndex |-> readU2(buffer, offset + 1),
                                 value |-> ""]))
    ELSE IF SkipOf(readU1(buffer, offset)) < 0 THEN PoolFailed
    ELSE ReadConstantPool(buffer, offset + 1 + SkipOf(readU1(buffer, offset)),
                          NextIndex(i, readU1(buffer, offset)), cpCount, pool)

resolveClass(pool, index) ==
    IF index \notin DOMAIN pool THEN "Unknown"
    ELSE IF pool[index].tag # 7 THEN "Unknown"
    ELSE IF pool[index].nameIndex \notin DOMAIN pool THEN "Unknown"
    ELSE IF pool[pool[index].nameIndex].tag # 1 THEN "Unknown"
    ELSE pool[pool[index].nameIndex].value

\* access flags, this_class, super_class, interfaces_count and the interfaces,
\* read at offset once the constant pool is in
ReadClassInfo(buffer, offset, pool) ==
    IF ~InRange(buffer, offset, 8) THEN ParseFailed
    ELSE IF ~InRange(buffer, offset + 8, 2 * readU2(buffer, offset + 6)) THEN ParseFailed
    ELSE [ok |-> TRUE,
          className |-> ReplaceAll(resolveClass(pool, readU2(buffer, offset + 2)), "/", "."),
          superClass |-> IF readU2(buffer, offset + 4) = 0 THEN ""
                         ELSE ReplaceAll(resolveClass(pool, readU2(buffer, offset + 4)), "/", "."),
          interfaces |-> [k \in 1..readU2(buffer, offset + 6) |->
                             ReplaceAll(resolveClass(pool, readU2(buffer, offset + 6 + 2 * k)),
                                        "/", ".")]]

AfterPool(buffer, p) == IF p.threw THEN ParseFailed ELSE ReadClassInfo(buffer, p.offset, p.pool)

\* ClassParser.parse: ok is FALSE when it throws, superClass is "" when absent
parseClass(buffer) ==
    IF Len(buffer) < 10 THEN ParseFailed
    ELSE IF readU4(buffer, 0) # MAGIC THEN ParseFailed
    ELSE AfterPool(buffer, ReadConstantPool(buffer, 10, 1, readU2(buffer, 8), <<>>))

\* --- class files as a compiler writes them
U2(n) == <<n \div 256, n % 256>>

RECURSIVE Bytes(_)
Bytes(s) == IF s = "" THEN <<>> ELSE <<Ord(SubSeq(s, 1, 1))>> \o Bytes(SubSeq(s, 2, Len(s)))

Utf8(s) == <<1>> \o U2(Len(s)) \o Bytes(s)

ClassRef(nameIndex) == <<7>> \o U2(nameIndex)

LongEntry == <<5, 0, 0, 0, 0, 0, 0, 0, 42>>

DoubleEntry == <<6, 64, 9, 33, 251, 84, 68, 45, 24>>

IntegerEntry == <<3, 0, 0, 0, 7>>

ClassFile(magic, cpCount, entries, thisClass, super, interfaces) ==
    magic \o U2(0) \o U2(52) \o U2(cpCount) \o entries \o U2(33) \o U2(thisClass) \o U2(super)
    \o U2(Len(interfaces)) \o Flatten([k \in 1..Len(interfaces) |-> U2(interfaces[k])])

\* com.a.Foo extends com.a.Base implements com.a.Api
PlainEntries ==
    ClassRef(2) \o Utf8("com/a/Foo") \o ClassRef(4) \o Utf8("com/a/Base") \o ClassRef(6)
    \o Utf8("com/a/Api")

PlainClass == ClassFile(MAGIC, 7, PlainEntries, 1, 3, <<5>>)

\* a long and a double constant ahead of the class entries: indices 1-2 and 3-4
WideClass ==
    ClassFile(MAGIC, 9, LongEntry \o DoubleEntry \o ClassRef(6) \o Utf8("com/a/Wide")
                        \o ClassRef(8) \o Utf8("com/a/Base"), 5, 7, <<>>)

\* java.lang.Object itself and module-info have super_class 0
RootClass == ClassFile(MAGIC, 4, IntegerEntry \o ClassRef(3) \o Utf8("com/a/Root"), 2, 0, <<>>)

BadMagicClass == ClassFile(<<202, 254, 186, 191>>, 7, PlainEntries, 1, 3, <<5>>)

\* tag 2 is not a constant-pool tag
BadTagClass == ClassFile(MAGIC, 4, ClassRef(2) \o Utf8("com/a/Bad") \o <<2, 0, 0>>, 1, 0, <<>>)

TruncatedClass == SubSeq(PlainClass, 1, 20)

ClassFiles == {PlainClass, WideClass, RootClass, BadMagicClass, BadTagClass, TruncatedClass}

MaxEntries == 2

\* one archive of .class entries read and committed as artifact 1
ParseArchiveCall ==
    /\ call = NoCall
    /\ \E n \in 1..MaxEntries : \E buffers \in [1..n -> ClassFiles] :
        /\ call' = [op |-> "parseArchive", buffers |-> buffers,
                    infos |-> [k \in 1..n |-> parseClass(buffers[k])],
                    result |-> CommitArtifact(insertArtifact(EmptyDB, MavenLeaf(MavenRoot, MavenDir(1), FALSE)[1]), 1,
                                   ReadArchive([classes |-> [k \in 1..n |-> parseClass(buffers[k])],
                                                protos |-> <<>>], <<>>))]
        /\ UNCHANGED <<roots, disk, normalizedIncludedPackages, db, isIndexing, timers, run,
                       counters, history>>

\* ------------------------------------------------- ProtoParser (definitions)
WordChars == Lower \o Upper \o "0123456789_"

CharAt(s, i) == SubSeq(s, i, i)

IsSpace(ch) == ch \in {" ", "\n", "\t"}

\* /^\w+$/
IsWord(t) ==
    /\ Len(t) > 0
    /\ \A i \in 1..Len(t) : \E j \in 1..Len(WordChars) : CharAt(WordChars, j) = CharAt(t, i)

\* i is inside a string literal of the proto text (the samples use no escapes)
InLiteral(s, i) == Cardinality({j \in 1..(i - 1) : CharAt(s, j) = "\""}) % 2 = 1

\* a brace the split cuts at: every '{' and '}' of the text, or with literal
\* set only those outside string literals
BraceAt(s, i, literal) == CharAt(s, i) \in {"{", "}"} /\ (literal => ~InLiteral(s, i))

Separator(s, i, literal) == IsSpace(CharAt(s, i)) \/ BraceAt(s, i, literal)

TokenStarts(s, literal) ==
    {i \in 1..Len(s) :
        /\ ~IsSpace(CharAt(s, i))
        /\ BraceAt(s, i, literal) \/ i = 1 \/ Separator(s, i - 1, literal)}

TokenEnd(s, i, literal) ==
    IF BraceAt(s, i, literal) THEN i
    ELSE CHOOSE j \in i..Len(s) :
            /\ \A k \in i..j : ~Separator(s, k, literal)
            /\ j = Len(s) \/ Separator(s, j + 1, literal)

\* the n-th smallest element of a set of positions
Nth(S, n) == CHOOSE i \in S : Cardinality({j \in S : j < i}) = n - 1

TokensAt(s, literal) ==
    [n \in 1..Cardinality(TokenStarts(s, literal)) |->
        [at |-> Nth(TokenStarts(s, literal), n),
         text |-> SubSeq(s, Nth(TokenStarts(s, literal), n),
                         TokenEnd(s, Nth(TokenStarts(s, literal), n), literal))]]

\* content.split(/([{}])|\s+/).filter(t => t && t.trim().length > 0)
Tokens(content) == [n \in 1..Len(TokensAt(content, FALSE)) |-> TokensAt(content, FALSE)[n].text]

DefinitionKeywords == {"message", "enum", "service"}

\* the for loop of extractTopLevelDefinitions at token i (1-based)
RECURSIVE ScanTokens(_, _, _, _)
ScanTokens(tokens, i, braceDepth, definitions) ==
    IF i > Len(tokens) THEN definitions
    ELSE IF tokens[i] = "{" THEN ScanTokens(tokens, i + 1, braceDepth + 1, definitions)
    ELSE IF tokens[i] = "}" THEN ScanTokens(tokens, i + 1, braceDepth - 1, definitions)
    ELSE IF /\ braceDepth = 0
            /\ tokens[i] \in DefinitionKeywords
            /\ i + 1 <= Len(tokens)
            /\ IsWord(tokens[i + 1])
    THEN ScanTokens(tokens, i + 2, braceDepth, Append(definitions, tokens[i + 1]))
    ELSE ScanTokens(tokens, i + 1, braceDepth, definitions)

extractTopLevelDefinitions(content) == ScanTokens(Tokens(content), 1, 0, <<>>)

\* --- the declarations of a proto text by its grammar: a brace inside a
\* string literal is part of the literal
Depth(s, i) ==
    Cardinality({j \in 1..(i - 1) : CharAt(s, j) = "{" /\ ~InLiteral(s, j)})
    - Cardinality({j \in 1..(i - 1) : CharAt(s, j) = "}" /\ ~InLiteral(s, j)})

DeclarationsIn(s, T) ==
    {t \in 1..(Len(T) - 1) : T[t].text \in DefinitionKeywords /\ IsWord(T[t + 1].text)}

TopLevelIn(s, T) == {t \in DeclarationsIn(s, T) : Depth(s, T[t].at) = 0}

NamesOf(T, D) == [n \in 1..Cardinality(D) |-> T[Nth(D, n) + 1].text]

TopLevelNames(s) == NamesOf(TokensAt(s, TRUE), TopLevelIn(s, TokensAt(s, TRUE)))

NestedNames(s) ==
    {TokensAt(s, TRUE)[t + 1].text :
        t \in DeclarationsIn(s, TokensAt(s, TRUE)) \ TopLevelIn(s, TokensAt(s, TRUE))}

\* declarations of a .proto file, one after the other in the file
ProtoFragments ==
    {"message A {}",
     "enum E{ X = 0; }",
     "service S { rpc G (A) returns (A) {} }",
     "message O { message I { enum J {} } }",
     "message Q { string s = 1 [default = \"}\"]; enum N {} }",
     "option (x) = \"{\";"}

MaxDecls == 2

RECURSIVE JoinLines(_)
JoinLines(ss) == IF ss = <<>> THEN "" ELSE Head(ss) \o "\n" \o JoinLines(Tail(ss))

ProtoDefinitionsCall ==
    /\ call = NoCall
    /\ \E n \in 1..MaxDecls : \E parts \in [1..n -> ProtoFragments] :
        /\ call' = [op |-> "extractTopLevelDefinitions", content |-> JoinLines(parts),
                    result |-> extractTopLevelDefinitions(JoinLines(parts))]
        /\ UNCHANGED <<roots, disk, normalizedIncludedPackages, db, isIndexing, timers, run,
                       counters, history>>

\* ------------------------------------------- one Gradle version directory
GradleFileNames == <<"lib4-1.0-javadoc.jar", "lib4-1.0-sources.jar", "lib4-1.0-tests.jar",
                     "lib4-1.0.jar", "lib4-1.0.pom">>

HashDirNames == <<"h1", "h2", "h3", "h4">>

MaxHashDirs == 2

\* what one hash directory holds: Gradle stores each file of a module under
\* the hash of that file, a republished module leaves a second one
HashDirContents == {S \in SUBSET (1..Len(GradleFileNames)) : Cardinality(S) <= 2}

\* the files of the hash directories 1..n in readdir order
FilesOf(holds) ==
    Flatten([h \in 1..Len(holds) |->
                [k \in 1..Cardinality(holds[h]) |->
                    <<HashDirNames[h], GradleFileNames[Nth(holds[h], k)]>>]])

GradleDirCall ==
    /\ call = NoCall
    /\ \E n \in 1..MaxHashDirs : \E holds \in [1..n -> HashDirContents] :
        /\ call' = [op |-> "gradleDir", files |-> FilesOf(holds),
                    result |-> GradleVersion(4, FilesOf(holds))]
        /\ UNCHANGED <<roots, disk, normalizedIncludedPackages, db, isIndexing, timers, run,
                       counters, history>>

FnInit ==
    /\ disk = [c \in Coords |-> "pomOnly"]
    /\ normalizedIncludedPackages = <<>>
    /\ call = NoCall
    /\ Constructed

FnNext ==
    \/ ScanCall
    \/ NormalizeCall
    \/ ImplCall
    \/ SearchClassCall
    \/ SearchResourcesCall
    \/ GetResourcesForClassCall
    \/ ResolveCall
    \/ ResolveOneCall
    \/ UpsertCall
    \/ ParseArchiveCall
    \/ ProtoDefinitionsCall
    \/ GradleDirCall

FnSpec == FnInit /\ [][FnNext]_vars

\* ------------------------------------------------ the chunk loop of index()
\* Step 4 of index() on lists longer than a chunk. The artifacts of a chunk
\* all start when chunk.map(...) runs and differ only in their position, so
\* the state keeps how many of them have settled; call holds the loop's
\* variables.
MaxListLen == 101

\* Promise.any in place of Promise.all
AnySettled(size, settled) == settled > 0

\* "await Promise.all(chunk.map(...))" returns
AllSettled(size, settled) == settled = size

\* the loop at the test "i < artifactsToIndex.length" (i is 1-based here);
\* when it passes the chunk at i has started
LoopAt(list, i) ==
    [op |-> "chunks", artifactsToIndex |-> list, i |-> i, settled |-> 0,
     pc |-> IF i <= Len(list) THEN "await" ELSE "done"]

ChunkInit ==
    /\ disk = [c \in Coords |-> "pomOnly"]
    /\ normalizedIncludedPackages = <<>>
    /\ call \in {LoopAt([k \in 1..n |-> k], 1) : n \in 0..MaxListLen}
    /\ Constructed

\* the promise of one more artifact of the chunk resolves
SettleOne ==
    /\ call.pc = "await"
    /\ call.settled < Len(ChunkOf(call.artifactsToIndex, call.i))
    /\ call' = [call EXCEPT !.settled = @ + 1]
    /\ UNCHANGED <<roots, disk, normalizedIncludedPackages, db, isIndexing, timers, run,
                   counters, history>>

\* "i += CHUNK_SIZE" once the await returns
AwaitReturns ==
    /\ call.pc = "await"
    /\ AllSettled(Len(ChunkOf(call.artifactsToIndex, call.i)), call.settled)
    /\ call' = LoopAt(call.artifactsToIndex, call.i + CHUNK_SIZE)
    /\ UNCHANGED <<roots, disk, normalizedIncludedPackages, db, isIndexing, timers, run,
                   counters, history>>

ChunkNext ==
    \/ SettleOne
    \/ AwaitReturns

ChunkSpec == ChunkInit /\ [][ChunkNext]_vars

\* ------------------------------------- startWatch / startSchedule, repeated
\* The two methods called any number of times in any order on the one
\* Indexer instance. call counts the calls made, the startWatch calls that
\* are at "await Config.getInstance()", and the chokidar.watch and
\* setInterval calls that returned a watcher or a timer.
MaxStartCalls == 4

\* startWatch without "if (this.watcher) return;"
WatcherGuardMissing(w) == FALSE

\* "if (this.watcher) { return; }"
WatcherGuard(w) == w

StartInit ==
    /\ roots \in SUBSET {"maven", "gradle"}
    /\ disk = [c \in Coords |-> "pomOnly"]
    /\ normalizedIncludedPackages = <<>>
    /\ call = [op |-> "start", calls |-> 0, awaiting |-> 0, watchers |-> 0, intervals |-> 0]
    /\ db = EmptyDB
    /\ NothingStarted

\* startSchedule(): synchronous
startSchedule ==
    /\ call.op = "start"
    /\ call.calls < MaxStartCalls
    /\ IF scheduleTimer
       THEN /\ call' = [call EXCEPT !.calls = @ + 1]
            /\ UNCHANGED scheduleTimer
       ELSE /\ call' = [call EXCEPT !.calls = @ + 1, !.intervals = @ + 1]
            /\ scheduleTimer' = TRUE
    /\ UNCHANGED <<roots, disk, normalizedIncludedPackages, db, isIndexing, watcher, debounce,
                   main, connected, run, counters, history>>

\* startWatch() up to its first await
startWatch ==
    /\ call.op = "start"
    /\ call.calls < MaxStartCalls
    /\ call' = [call EXCEPT !.calls = @ + 1, !.awaiting = @ + 1]
    /\ UNCHANGED <<roots, disk, normalizedIncludedPackages, db, isIndexing, timers, run,
                   counters, history>>

\* the rest of startWatch(), one synchronous block; chokidar.watch may throw
\* into the catch, which leaves this.watcher as it was
startWatchResumes ==
    /\ call.op = "start"
    /\ call.awaiting > 0
    /\ \E throws \in BOOLEAN :
          IF Len(watchPaths(roots)) = 0 \/ WatcherGuard(watcher) \/ throws
          THEN /\ call' = [call EXCEPT !.awaiting = @ - 1]
               /\ UNCHANGED watcher
          ELSE /\ call' = [call EXCEPT !.awaiting = @ - 1, !.watchers = @ + 1]
               /\ watcher' = TRUE
    /\ UNCHANGED <<roots, disk, normalizedIncludedPackages, db, isIndexing, scheduleTimer,
                   debounce, main, connected, run, counters, history>>

StartNext ==
    \/ startSchedule
    \/ startWatch
    \/ startWatchResumes

StartSpec == StartInit /\ [][StartNext]_vars

\* ------------------------------------------------- roots that do not exist
\* The database file outlives the process (~/.maven-indexer-mcp): it is new,
\* or it is the one a session left that indexed both roots.
PersistedStores == {EmptyDB, StoreOf([c \in Coords |-> "jar"])}

\* the indexer as constructed when any of the roots may be missing
RootsInit ==
    /\ roots \in SUBSET {"maven", "gradle"}
    /\ disk \in [Coords -> DiskKinds]
    /\ normalizedIncludedPackages = <<>>
    /\ call = NoCall
    /\ db \in PersistedStores
    /\ NothingStarted

RootsSpec == RootsInit /\ [][Next]_vars

\* --------------------------------------------- dropped debounce triggers
\* The indexer's state machine with a record, kept in call, of whether the
\* index() call of a debounce callback has returned at the guard since the
\* last run started.
Dropped == [op |-> "dropped"]

\* a call that returns at the guard is recorded when the debounce callback
\* made it; a call that starts a run clears the record
Noted(byDebounce) ==
    call' = IF IndexGuard(isIndexing) THEN (IF byDebounce THEN Dropped ELSE call) ELSE NoCall

RefreshNoted == RefreshCalled /\ Noted(FALSE)

DebounceNoted == DebounceExpires /\ Noted(TRUE)

HourlyNoted == HourlyTicks /\ Noted(FALSE)

\* a repository in which the jar of coordinate 1 cannot be read to its end
LiveInit ==
    /\ disk \in {d \in [Coords -> DiskKinds] : d[1] = "corrupt"}
    /\ normalizedIncludedPackages = <<>>
    /\ call = NoCall
    /\ Constructed

LiveNext ==
    \/ Boot
    \/ StartSchedule
    \/ StartWatch
    \/ RefreshNoted
    \/ WatcherEvent
    \/ DebounceNoted
    \/ HourlyNoted
    \/ \E r \in Runs : IndexSync(r)
    \/ \E r \in Runs : IndexFail(r)
    \/ \E r \in Runs, k \in 1..NumArtifacts : IndexArtifact(r, k)
    \/ \E r \in Runs, k \in 1..NumArtifacts : EntryStreamError(r, k)
    \/ \E r \in Runs : ChunkDone(r)

\* The run steps that can be taken are taken. IndexSync, IndexArtifact and
\* ChunkDone each disable themselves, so weak fairness of each is that its
\* enabling condition is false again and again.
RunFairness ==
    \A r \in Runs :
        /\ []<>(run[r].pc # "scan")
        /\ []<>~(run[r].pc = "ingest" /\ \A k \in DOMAIN run[r].phase : run[r].phase[k] = "done")
        /\ \A k \in 1..NumArtifacts :
              []<>~(run[r].pc = "ingest" /\ k \in DOMAIN run[r].phase /\ run[r].phase[k] = "pending")

\* the hourly interval keeps ticking, watcher events and armed timeouts are
\* delivered, and the start-up goes on
LiveFairness ==
    /\ WF_vars(HourlyNoted)
    /\ WF_vars(WatcherEvent)
    /\ WF_vars(DebounceNoted)
    /\ WF_vars(StartSchedule)
    /\ WF_vars(StartWatch)
    /\ RunFairness

LiveSpec == LiveInit /\ [][LiveNext]_vars /\ LiveFairness

\* ------------------------------------------- artifacts removed from disk
\* The database file is the one a session left when the Gradle cache held
\* coordinate 2 and the Maven repository was still empty. Since then the jar
\* of coordinate 2 has been removed, and the other coordinates came.
RemovedInit ==
    /\ disk \in {d \in [Coords -> DiskKinds] : d[2] = "pomOnly"}
    /\ normalizedIncludedPackages = <<>>
    /\ call = NoCall
    /\ roots = {"maven", "gradle"}
    /\ db = StoreOf([c \in {2} |-> "jar"])
    /\ NothingStarted

RemovedSpec == RemovedInit /\ [][Next]_vars

\* ------------------------------------------------------------- properties
Ids(d) == 1..Len(d.artifacts)

AllIndexed(d) == \A id \in Ids(d) : d.artifacts[id].isIndexed

\* the run r returns in this step
Returns(r) == run[r].pc # "idle" /\ run'[r].pc = "idle"

AtMostOneRun == Cardinality(Active) <= 1 /\ (isIndexing <=> Active # {})

\* C1: at most one index() run executes at any time, isIndexing tells whether
\* one does, and while one does no index() call, whoever makes it, gets past
\* the guard: no second run starts and none is held back to start later.
C1_SingleFlight ==
    /\ []AtMostOneRun
    /\ [][(isIndexing \/ Active # {}) =>
            /\ runsStarted' = runsStarted
            /\ \A r \in Runs : run[r].pc = "idle" => run'[r].pc = "idle"]_vars

\* a run is in progress and refresh() has called index() during it
C1_Witness == \E r \in Runs : run[r].pc = "ingest" /\ ~run[r].clean

TableNames == {"classes_fts", "inheritance", "resources", "resource_classes"}

NoRows == [n \in TableNames |-> EmptyBag]

\* ---- what the readers produce for one artifact, as rows without row ids
\* The rows one ingestion of a read archive inserts for artifact id: one class
\* row per accepted .class entry and one per further name that a .proto
\* resource stands for, one inheritance row per edge, one resource row per
\* .proto entry and one link per name of classesToIndex.
RowsOfRead(read, id) ==
    LET protoNames == UNION {SeqToSet(classesToIndex(read.resources[k])) : k \in 1..Len(read.resources)}
    IN [classes_fts |->
            BagAddAll(EmptyBag, [k \in 1..Len(read.classes) |-> ClassRow(id, read.classes[k])])
            (+) SetToBag({ClassRow(id, n) : n \in protoNames \ SeqToSet(read.classes)}),
        inheritance |->
            BagAddAll(EmptyBag, [k \in 1..Len(read.inheritance) |->
                [artifact_id |-> id, class_name |-> read.inheritance[k].className,
                 parent_class_name |-> read.inheritance[k].parent, type |-> read.inheritance[k].type]]),
        resources |->
            BagAddAll(EmptyBag, [k \in 1..Len(read.resources) |->
                [artifact_id |-> id, path |-> read.resources[k].path,
                 content |-> read.resources[k].content, type |-> read.resources[k].type]]),
        resource_classes |->
            BagAddAll(EmptyBag, Flatten([k \in 1..Len(read.resources) |->
                LET names == classesToIndex(read.resources[k])
                IN [j \in 1..Len(names) |->
                       [artifact_id |-> id, path |-> read.resources[k].path, class_name |-> names[j]]]]))]

\* RowsOfRead for every coordinate's archive, prefix list and artifact id
ProducedByArchive ==
    [c \in Coords |-> [p \in Prefixes |-> [id \in Coords |-> RowsOfRead(ReadArchive(Archive(c), p), id)]]]

MainJarPaths == [c \in Coords |-> MainJarPath(c)]

\* what one ingestion of the artifact inserts; nothing when it has no archive
\* that can be read
ProducedTables(art) ==
    LET jarPath == JarPathOf(art)
        holders == {c \in Coords : disk[c] = "jar" /\ MainJarPaths[c] = jarPath}
    IN IF holders = {} THEN NoRows
       ELSE ProducedByArchive[CHOOSE c \in holders : TRUE][normalizedIncludedPackages][art.id]

\* the part of a bag of rows that belongs to artifact id
OwnBag(bag, id) ==
    LET keys == {e \in BagToSet(bag) : e.artifact_id = id} IN [e \in keys |-> bag[e]]

\* the rows of artifact id in the four dependent tables
Own(tables, id) ==
    [classes_fts |-> OwnBag(tables.classes_fts, id), inheritance |-> OwnBag(tables.inheritance, id),
     resources |-> OwnBag(tables.resources, id), resource_classes |-> OwnBag(tables.resource_classes, id)]

\* the rows of t that s has not (table by table, counting copies)
Added(t, s) == [n \in TableNames |-> t[n] (-) s[n]]

\* C2: a refresh() called while an index() run is in progress resets no
\* isIndexed flag and clears no table before that run is back to Idle.
C2_RefreshWaits == [][(refreshes' # refreshes /\ isIndexing) => db' = db]_vars

\* C3: when the promise returned by refresh() resolves, every artifact is
\* indexed and the class rows are those that existed before the refresh,
\* whether refresh() was called at Idle (the promise is that of the run it
\* starts) or during a run (the promise is that of the index() call that
\* returned at once).
C3_RefreshNotDropped ==
    [][/\ (refreshes' # refreshes /\ isIndexing) =>
            (AllIndexed(db') /\ db'.classes_fts = db.classes_fts)
       /\ \A r \in Runs : (Returns(r) /\ run[r].kind = "refresh") =>
            (AllIndexed(db') /\ db'.classes_fts = run[r].base.tables.classes_fts)]_vars

\* C4: no row is committed twice: the rows an artifact has in the class index,
\* the inheritance, resource and resource-class tables are never more than one
\* ingestion of its archive inserts.
C4_NoDoubleCommit ==
    \A id \in Ids(db) : \A n \in TableNames :
        Own(Tables(db), id)[n] \sqsubseteq ProducedTables(db.artifacts[id])[n]

\* an artifact with isIndexed=true has all the rows of an ingestion, one with
\* isIndexed=false has no class or inheritance row
IngestedWhole(d) ==
    LET tables == Tables(d)
    IN \A id \in Ids(d) :
          LET own == Own(tables, id)
              produced == ProducedTables(d.artifacts[id])
          IN IF d.artifacts[id].isIndexed
             THEN \A n \in TableNames : produced[n] \sqsubseteq own[n]
             ELSE own.classes_fts = EmptyBag /\ own.inheritance = EmptyBag

IngestsWhole(old, new) ==
    LET before == Tables(old)
        after == Tables(new)
    IN \A id \in Ids(new) :
          LET added == Added(Own(after, id), Own(before, id))
              flipped == new.artifacts[id].isIndexed /\ ~(id \in Ids(old) /\ old.artifacts[id].isIndexed)
          IN (added # NoRows \/ flipped) =>
                /\ new.artifacts[id].isIndexed
                /\ added = ProducedTables(new.artifacts[id])

\* C5: the ingestion of an artifact is one step. A step that inserts a row of
\* an artifact, or that turns its isIndexed to true, inserts all the rows the
\* readers produce for it and leaves isIndexed true; hence an artifact with
\* isIndexed=true has all its rows, and one with isIndexed=false has no class
\* or inheritance row.
C5_AtomicIngestion ==
    [][db' # db => (IngestsWhole(db, db') /\ IngestedWhole(db'))]_vars

\* an artifact with class, inheritance and resource rows has been committed
\* while another one is still to be ingested
C5_Witness ==
    \E id \in Ids(db), other \in Ids(db) :
        /\ db.artifacts[id].isIndexed
        /\ ~db.artifacts[other].isIndexed
        /\ Own(Tables(db), id).classes_fts # EmptyBag
        /\ Own(Tables(db), id).inheritance # EmptyBag
        /\ Own(Tables(db), id).resources # EmptyBag
        /\ \E r \in Runs : run[r].pc = "ingest"

FullyReset(d) ==
    /\ d.classes_fts = EmptyBag
    /\ d.inheritance = EmptyBag
    /\ d.resources = {}
    /\ d.resource_classes = EmptyBag
    /\ \A id \in Ids(d) : ~d.artifacts[id].isIndexed

LosesDependentRows(old, new) ==
    \/ old.inheritance (-) new.inheritance # EmptyBag
    \/ old.resources \ new.resources # {}
    \/ old.resource_classes (-) new.resource_classes # EmptyBag

\* C6: the reset of refresh() is one step: a refresh() leaves the four tables
\* empty and every artifact with isIndexed=false at once, no step empties a
\* part of the inheritance, resource and resource-class tables, and no step
\* resets the flag of some artifacts only.
C6_AtomicReset ==
    [][/\ refreshes' # refreshes => FullyReset(db')
       /\ db' # db =>
            /\ LosesDependentRows(db, db') => FullyReset(db')
            /\ (\E id \in Ids(db) : db.artifacts[id].isIndexed /\ ~db'.artifacts[id].isIndexed)
                  => \A id \in Ids(db') : ~db'.artifacts[id].isIndexed]_vars

\* a refresh() has emptied a store that held two artifacts and resource rows
C6_Witness ==
    /\ refreshes >= 1
    /\ db.resource_seq > 0
    /\ Len(db.artifacts) >= 2
    /\ FullyReset(db)

\* the class and inheritance rows of every artifact are those of one ingestion
ExactClassRows(d) ==
    LET tables == Tables(d)
    IN \A id \in Ids(d) :
          LET own == Own(tables, id)
              produced == ProducedTables(d.artifacts[id])
          IN own.classes_fts = produced.classes_fts /\ own.inheritance = produced.inheritance

\* C7: when an index() run that no refresh() interrupted returns without
\* having caught an error, every artifact has isIndexed=true and each
\* artifact's class and inheritance rows are exactly those the readers produce
\* for its archive.
C7_RunIndexesAll ==
    [][\A r \in Runs : (Returns(r) /\ lastDone' = "ok" /\ run[r].clean) =>
            (AllIndexed(db') /\ ExactClassRows(db'))]_vars

\* C8: an index() run that follows a completed run, with no refresh() between
\* them or during it, returns with no row in the class index, the inheritance,
\* resource and resource-class tables that was not there when it was called.
C8_IndexIdempotent ==
    [][\A r \in Runs :
          (Returns(r) /\ lastDone' = "ok" /\ run[r].prior = "ok" /\ run[r].clean) =>
             Added(Tables(db'), run[r].base.tables) = NoRows]_vars

\* C9: a refresh() that runs to completion after an earlier one ran to
\* completion leaves the artifact rows and the rows of the four dependent
\* tables, generated row ids aside, as the earlier one left them.
C9_RefreshIdempotent ==
    [][\A r \in Runs :
          (/\ Returns(r)
           /\ lastDone' = "ok"
           /\ run[r].kind = "refresh"
           /\ run[r].clean
           /\ refSnap.n > 0) => Rows(db') = refSnap.rows]_vars

\* two refreshes have run to completion over a store with class, inheritance,
\* resource and resource-class rows
C9_Witness ==
    /\ refSnap.n = 2
    /\ refSnap.rows = Rows(db)
    /\ db.classes_fts # EmptyBag
    /\ db.inheritance # EmptyBag
    /\ db.resources # {}
    /\ db.resource_classes # EmptyBag

\* the artifact has no main jar on disk
PomOnly(art) == ~JarExists(disk, JarPathOf(art))

\* C10: as long as no refresh() has been called, the run that processes an
\* artifact whose main jar is missing marks it isIndexed=true, the mark stays,
\* and no run selects the artifact as unindexed afterwards.
C10_PomOnlyStaysIndexed ==
    [][refreshes' = 0 =>
          /\ \A r \in Runs : \A k \in DOMAIN run[r].phase :
                (/\ run'[r].pc = "ingest" /\ run[r].phase[k] = "pending" /\ run'[r].phase[k] = "done"
                 /\ PomOnly(ChunkOf(run[r].artifactsToIndex, run[r].i)[k]))
                   => db'.artifacts[ChunkOf(run[r].artifactsToIndex, run[r].i)[k].id].isIndexed
          /\ \A id \in Ids(db) :
                (db.artifacts[id].isIndexed /\ PomOnly(db.artifacts[id])) =>
                   /\ db'.artifacts[id].isIndexed
                   /\ \A r \in Runs : (run[r].pc = "scan" /\ run'[r].pc = "ingest") =>
                         \A k \in 1..Len(run'[r].artifactsToIndex) : run'[r].artifactsToIndex[k].id # id]_vars

\* the artifact has a main jar on disk that cannot be opened or streamed
Unreadable(art) == JarExists(disk, JarPathOf(art)) /\ ~JarReadable(disk, JarPathOf(art))

\* C11: when indexArtifactClasses finishes for an artifact whose archive exists
\* but cannot be opened or read, the artifact has isIndexed=true, so that no
\* later run selects it again.
C11_UnreadableMarked ==
    [][\A r \in Runs : \A k \in DOMAIN run[r].phase :
          (/\ run'[r].pc = "ingest" /\ run[r].phase[k] = "pending" /\ run'[r].phase[k] = "done"
           /\ Unreadable(ChunkOf(run[r].artifactsToIndex, run[r].i)[k]))
             => db'.artifacts[ChunkOf(run[r].artifactsToIndex, run[r].i)[k].id].isIndexed]_vars

\* C12: watcher events are coalesced. At most one debounce timeout is armed at
\* any time; one is armed exactly when events have arrived since the last
\* debounce call of index(), and it is the one debounceTimer names, armed by
\* the last event. So a burst of events, each arriving before the timeout of
\* the previous one expires, is followed by one call, after which none is armed.
C12_Coalesced ==
    /\ timeouts <= 1
    /\ (timeouts = 1 <=> burst > 0)
    /\ (debounceTimer = "pending" <=> burst > 0)

\* a second event has arrived while the timeout of the first was armed, and
\* the server is indexing nothing
C12_Witness == burst = 2 /\ timeouts = 1 /\ debounceTimer = "pending" /\ ~isIndexing

\* the run has a continuation the event loop will run: the synchronous part of
\* index(), a callback of an archive of the current chunk, or the return of
\* "await Promise.all"
CanStep(r) ==
    \/ run[r].pc = "scan"
    \/ /\ run[r].pc = "ingest"
       /\ \/ \E k \in DOMAIN run[r].phase : run[r].phase[k] = "pending"
          \/ \A k \in DOMAIN run[r].phase : run[r].phase[k] = "done"

\* C13: every index() run ends and leaves isIndexing=false. A run passes through
\* finitely many steps (one per artifact and chunk), so it ends if it can
\* always take its next one: while isIndexing is true a run is in progress that
\* has a continuation to run, whatever archives or entries failed to read, and
\* when no run is in progress isIndexing is false.
C13_RunsEnd ==
    /\ isIndexing => \E r \in Active : CanStep(r)
    /\ Active = {} => ~isIndexing

\* C14: the first index() runs in the background. While the server's first
\* run is in progress the server is connected and serves tool calls, and the
\* hourly timer and the watcher exist only once that first index() call has
\* returned.
C14_ColdStart ==
    /\ main = "indexing" => connected
    /\ (scheduleTimer \/ watcher) =>
          /\ main \in {"watch", "serving"}
          /\ \A r \in Runs : run[r].kind # "boot"

\* the refresh_index tool has been served during the first run, while an
\* artifact was still to be ingested, and no timer or watcher exists
C14_Witness ==
    /\ main = "indexing"
    /\ refreshes > 0
    /\ \E r \in Runs : run[r].kind = "boot" /\ run[r].pc = "ingest"
    /\ ~scheduleTimer /\ ~watcher

\* the name equals one of the prefixes or starts with one followed by "."
UnderPrefix(name, prefixes) ==
    \E i \in 1..Len(prefixes) :
        name = prefixes[i] \/ StartsWith(name, prefixes[i] \o ".")

\* the names of the .class entries of the archives ingested so far that are
\* parsed and are not nested classes
ParsedClasses ==
    UNION {{Archive(c).classes[k].className : k \in {j \in 1..Len(Archive(c).classes) :
                Archive(c).classes[j].ok /\ ~Includes(Archive(c).classes[j].className, "$")}}
           : c \in {c \in Coords : disk[c] = "jar" /\ \E id \in Ids(db) :
                       db.artifacts[id].isIndexed /\ JarPathOf(db.artifacts[id]) = MainJarPath(c)}}

\* C15: with a non-empty list of normalized prefixes every class row of the
\* index and the child class of every inheritance row is under a prefix; with
\* an empty list every parsed class of an ingested archive has a class row.
C15_OnlyIncluded ==
    IF normalizedIncludedPackages # <<>>
    THEN /\ \A row \in BagToSet(db.classes_fts) : UnderPrefix(row.class_name, normalizedIncludedPackages)
         /\ \A row \in BagToSet(db.inheritance) : UnderPrefix(row.class_name, normalizedIncludedPackages)
    ELSE \A name \in ParsedClasses : \E row \in BagToSet(db.classes_fts) : row.class_name = name

\* C15 for the rows that come from .class entries: the class rows that no
\* .proto resource of the artifact stands for, and the inheritance rows
ClassEntryRowsIncluded ==
    normalizedIncludedPackages # <<>> =>
       /\ \A row \in BagToSet(db.classes_fts) :
             \/ UnderPrefix(row.class_name, normalizedIncludedPackages)
             \/ \E l \in DOMAIN LinkRows(db) : l.artifact_id = row.artifact_id /\ l.class_name = row.class_name
       /\ \A row \in BagToSet(db.inheritance) : UnderPrefix(row.class_name, normalizedIncludedPackages)

\* the dotted form of the directories between the root and dir
DottedUnder(root, dir) == ReplaceAll(SubSeq(dir, Len(root) + 2, Len(dir)), "/", ".")

\* the artifacts as the scanners report them for the coordinate c of d
Expected(c, d) ==
    [id |-> 0, groupId |-> Coordinate(c).groupId, artifactId |-> Coordinate(c).artifactId,
     version |-> Coordinate(c).version, hasSource |-> Coordinate(c).sources,
     abspath |-> IF Coordinate(c).layout = "maven" THEN MavenDir(c) ELSE MainJarPath(c)]

\* C16: with a non-empty list of prefixes the scan emits a Maven artifact only
\* from a directory whose dotted form under the root equals a prefix or starts
\* with a prefix followed by ".", and a Gradle artifact only if its groupId
\* does; with an empty list it emits every artifact of both roots (a Gradle
\* one needs its main jar).
C16_Pruning ==
    call.op = "scan" =>
       IF call.prefixes # <<>>
       THEN \A k \in 1..Len(call.result) :
               IF StartsWith(call.result[k].abspath, MavenRoot \o "/")
               THEN UnderPrefix(DottedUnder(MavenRoot, call.result[k].abspath), call.prefixes)
               ELSE UnderPrefix(call.result[k].groupId, call.prefixes)
       ELSE SeqToSet(call.result) =
               {Expected(c, call.d) : c \in {c \in DOMAIN call.d :
                    Coordinate(c).layout = "maven" \/ call.d[c] = "jar"}}

\* a scan with two prefixes has emitted the Maven and the Gradle artifact
\* under them and has pruned the three others
C16_Witness ==
    /\ call.op = "scan"
    /\ call.prefixes = <<"com.b", "org.x">>
    /\ call.d = [c \in 1..5 |-> "jar"]
    /\ SeqToSet(call.result) = {Expected(2, call.d), Expected(3, call.d)}

\* the entries of a list that are not blank, trimmed and without a trailing ".*"
Stripped(patterns) ==
    {StripWildcard(Trim(patterns[k])) : k \in {j \in 1..Len(patterns) : Trim(patterns[j]) # ""}}

\* C17: the normalization of a list is [] when an entry is "*" or none is left
\* after the blank ones are ignored; otherwise it is a list of the stripped
\* entries, strictly ascending (so without duplicates), that covers every
\* stripped entry and in which no entry starts with another one followed by ".".
C17_Normalized ==
    call.op = "normalize" =>
       LET entries == Stripped(call.patterns)
           result == call.result
       IN IF "" \in entries \/ entries = {}
          THEN result = <<>>
          ELSE /\ SeqToSet(result) \subseteq entries
               /\ \A i, j \in 1..Len(result) : i < j => StringLess(result[i], result[j])
               /\ \A e \in entries : e \in SeqToSet(result) \/ UnderPrefix(e, result)
               /\ \A i, j \in 1..Len(result) : ~StartsWith(result[i], result[j] \o ".")

\* the children of a set of classes in an inheritance table
Children(inheritance, parents) ==
    {x.class_name : x \in {y \in BagToSet(inheritance) : y.parent_class_name \in parents}}

RECURSIVE Level(_, _, _)
\* the classes reached from className by following exactly n edges
Level(inheritance, className, n) ==
    IF n = 0 THEN {className}
    ELSE Children(inheritance, Level(inheritance, className, n - 1))

\* the classes reached by following one or more edges; a shortest walk leaves
\* every class at most once, so it has no more edges than there are parents
Descendants(inheritance, className) ==
    UNION {Level(inheritance, className, n) :
              n \in 1..Cardinality({x.parent_class_name : x \in BagToSet(inheritance)})}

\* the (class, artifact) rows of the transitive closure
ClosureRows(inheritance, className) ==
    LET from == {className} \cup Descendants(inheritance, className)
    IN {<<x.class_name, x.artifact_id>> :
           x \in {y \in BagToSet(inheritance) : y.parent_class_name \in from}}

\* C18: when the transitive closure of className has at most 100 (class,
\* artifact) rows, searchImplementations returns one entry for each class
\* reachable from className over one or more parent-to-child edges and no
\* other entry, each with the artifacts that declare the class below a class
\* of the closure.
C18_TransitiveClosure ==
    (call.op = "searchImplementations"
        /\ Cardinality(ClosureRows(call.inheritance, call.className)) <= LIMIT) =>
       LET closure == ClosureRows(call.inheritance, call.className)
       IN /\ {e.className : e \in call.result} = Descendants(call.inheritance, call.className)
          /\ \A e, f \in call.result : e.className = f.className => e = f
          /\ \A e \in call.result : e.artifacts = {x[2] : x \in {y \in closure : y[1] = e.className}}

\* a search from "A" that reaches "D" over three edges and two artifacts
C18_Witness ==
    /\ call.op = "searchImplementations"
    /\ call.className = "A"
    /\ BagToSet(call.inheritance) = {Edge("B", "A", 1), Edge("C", "B", 1), Edge("C", "B", 2), Edge("D", "C", 2)}
    /\ call.result = {[className |-> "B", artifacts |-> {1}], [className |-> "C", artifacts |-> {1, 2}],
                        [className |-> "D", artifacts |-> {2}]}

\* the number of rows behind a grouped result
RowCount(result) == Cardinality(UNION {{<<e.className, a>> : a \in e.artifacts} : e \in result})

\* C19: searchImplementations returns, with at most 100 rows, on every
\* inheritance table, with or without cycles.
C19_TerminatesCapped ==
    call.op = "searchImplementations" => (call.returned /\ RowCount(call.result) <= LIMIT)

\* a search on a table where A extends B in one artifact and B extends A in another
C19_Witness ==
    /\ call.op = "searchImplementations"
    /\ call.className = "A"
    /\ {Edge("B", "A", 1), Edge("A", "B", 2)} \subseteq BagToSet(call.inheritance)
    /\ call.returned
    /\ \E e \in call.result : e.className = "A"

\* C20: when classes_fts holds a class named exactly like the pattern,
\* searchClass returns an entry with that class name.
C20_ExactMatchFound ==
    (call.op = "searchClass"
        /\ \E c \in BagToSet(call.classes_fts) : c.class_name = call.classNamePattern) =>
       \E e \in call.result : e.className = call.classNamePattern

\* the term of a query that its engine rejects: a regular expression that
\* RegExp does not compile, an FTS query with a syntax error
Malformed(c) ==
    /\ c.op = "searchClass"
    /\ \/ /\ Mode(c.classNamePattern) = "regex"
          /\ RegExpSyntaxError(SubSeq(c.classNamePattern, 7, Len(c.classNamePattern)))
       \/ /\ Mode(c.classNamePattern) = "fts"
          /\ SyntaxError(QueryTokens(c.classNamePattern))

QueryOps == {"searchClass", "searchImplementations", "searchResources", "getResourcesForClass"}

\* C21: no query throws, whatever its term; a query whose term is malformed
\* returns an empty result; a query changes nothing in the store.
C21_QueriesNeverThrow ==
    [][call'.op \in QueryOps =>
          /\ ~call'.threw
          /\ (Malformed(call') => call'.result = {})
          /\ db' = db]_vars

\* a search with an FTS query that is a syntax error, on a table that holds
\* the class it names
C21_Witness ==
    /\ call.op = "searchClass"
    /\ call.classNamePattern = "AND"
    /\ call.classes_fts # EmptyBag
    /\ Malformed(call)
    /\ call.result = {}

\* C22: when a candidate has sources, the artifact that resolveBestArtifact
\* returns has sources, under every strategy.
C22_SourceBeats ==
    (call.op = "resolveBestArtifact" /\ \E k \in 1..Len(call.artifacts) : call.artifacts[k].hasSource) =>
       call.result.hasSource

\* the newest version comes first and has no sources, a later candidate has
C22_Witness ==
    /\ call.op = "resolveBestArtifact"
    /\ Len(call.artifacts) = 3
    /\ call.artifacts[1].version = "2.0.0" /\ ~call.artifacts[1].hasSource
    /\ call.artifacts[3].hasSource
    /\ call.result = call.artifacts[3]

\* the orderings of a list
Orderings(list) ==
    {l \in [1..Len(list) -> SeqToSet(list)] : \A i, j \in 1..Len(list) : i # j => l[i] # l[j]}

\* C23: on the candidates of a call the comparison is a total order (only an
\* artifact itself compares equal to it, and the comparison is transitive), and
\* every ordering of the list has the same winner.
C23_TotalOrder ==
    call.op = "resolveBestArtifact" =>
       LET S == SeqToSet(call.artifacts)
           cmp(a, b) == Compare(call.strategy, a, b)
       IN /\ \A a, b \in S : cmp(a, b) = 0 => a = b
          /\ \A a, b \in S : (cmp(a, b) < 0) = (cmp(b, a) > 0)
          /\ \A a, b, c \in S : (cmp(a, b) <= 0 /\ cmp(b, c) <= 0) => cmp(a, c) <= 0
          /\ \A l \in Orderings(call.artifacts) : resolveBestArtifact(call.strategy, l) = call.result

\* the strategy sees no difference between two artifacts
RanksEqual(strategy, a, b) ==
    IF strategy = "latest-published" THEN getArtifactPublishTime(a) = getArtifactPublishTime(b)
    ELSE IF strategy = "latest-used" THEN a.birthtime = b.birthtime
    ELSE /\ coerce(a.version) = coerce(b.version)
         /\ (valid(a.version) /\ valid(b.version)) => compare(parse(a.version), parse(b.version)) = 0

\* C24: of two candidates with the same hasSource that the strategy ranks
\* equal, the one with the higher id is returned.
C24_HigherIdWinsTies ==
    (/\ call.op = "resolveBestArtifact"
     /\ Len(call.artifacts) = 2
     /\ call.artifacts[1].hasSource = call.artifacts[2].hasSource
     /\ RanksEqual(call.strategy, call.artifacts[1], call.artifacts[2])) =>
       (call.result.id >= call.artifacts[1].id /\ call.result.id >= call.artifacts[2].id)

\* a Maven version read as base[-qualifier]: the numbers of the base, and
\* whether there is a qualifier
BaseVersion(version) ==
    coerce(IF IndexOf(version, "-") = 0 THEN version ELSE SubSeq(version, 1, IndexOf(version, "-") - 1)).main

IsPreRelease(version) == IndexOf(version, "-") > 0

\* C25: under semver, of two candidates with the same hasSource the higher
\* semantic version is returned, and a pre-release is never returned when the
\* other candidate is the release with the same base version.
C25_SemverOrder ==
    (/\ call.op = "resolveBestArtifact"
     /\ call.strategy = "semver"
     /\ Len(call.artifacts) = 2
     /\ call.artifacts[1].hasSource = call.artifacts[2].hasSource) =>
       \A i, j \in 1..2 :
          LET a == call.artifacts[i]
              b == call.artifacts[j]
          IN /\ (valid(a.version) /\ valid(b.version) /\ compare(parse(a.version), parse(b.version)) > 0)
                   => call.result = a
             /\ (/\ coerce(a.version).ok /\ coerce(b.version).ok
                 /\ BaseVersion(a.version) = BaseVersion(b.version)
                 /\ ~IsPreRelease(a.version) /\ IsPreRelease(b.version))
                   => call.result = a

\* C26: for a docs or source request the decompiler is invoked if and only
\* if the artifact has no source archive or its source archive lacks the
\* requested class, and every result obtained through the decompiler is
\* flagged usedDecompilation.
C26_DecompilerIffNoSource ==
    (call.op = "resolveOne" /\ call.type \in {"docs", "source"}) =>
       /\ (call.result.decompiled # {}) <=> (~call.hasSourceArchive \/ ~call.sourceHasClass)
       /\ (call.result.detail.found /\ call.result.detail.via = "decompiler")
             => call.result.usedDecompilation

\* the parsed .proto entry that resource row r was read from
ProtoOf(d, r) ==
    LET a == d.artifacts[r.artifact_id]
        c == CHOOSE c \in Coords : /\ Coordinate(c).groupId = a.groupId
                                   /\ Coordinate(c).artifactId = a.artifactId
                                   /\ Coordinate(c).version = a.version
        protos == Archive(c).protos
    IN protos[CHOOSE k \in 1..Len(protos) : protos[k].path = r.path]

\* name under package pkg
Qualified(pkg, name) == IF pkg = "" THEN name ELSE pkg \o "." \o name

\* the generated class names of a .proto entry: the outer class, and each
\* top-level definition beside it (javaMultipleFiles) or inside it
ProtoClassNames(proto) ==
    LET info == proto.protoInfo
        pkg == IF info.javaPackage # "" THEN info.javaPackage ELSE info.package
        outer == Qualified(pkg, IF info.javaOuterClassname # "" THEN info.javaOuterClassname
                                ELSE CamelCase(RemoveFirst(Basename(proto.path), ".proto")))
    IN {outer} \cup {IF info.javaMultipleFiles THEN Qualified(pkg, info.definitions[k])
                     ELSE outer \o "." \o info.definitions[k] : k \in 1..Len(info.definitions)}

\* C27: for every .proto resource row, the class index and the
\* resource-class links hold the outer class and one class per top-level
\* definition (pkg.<def> with javaMultipleFiles, else <outer>.<def>), and
\* getResourcesForClass on each of these names returns the proto text as it
\* was read.
C27_ProtoClassesIndexed ==
    \A r \in db.resources :
        r.type = "proto" =>
          \A name \in ProtoClassNames(ProtoOf(db, r)) :
             /\ \E row \in BagToSet(db.classes_fts) :
                   row.artifact_id = r.artifact_id /\ row.class_name = name
             /\ [resource_id |-> r.id, class_name |-> name] \in BagToSet(db.resource_classes)
             /\ \E x \in BagToSet(getResourcesForClass(db, name).rows) :
                   x.path = r.path /\ x.content = ProtoOf(db, r).content

SameCoordinate(a, b) ==
    a.groupId = b.groupId /\ a.artifactId = b.artifactId /\ a.version = b.version

\* C28: the upsert of scanned artifacts leaves every row that was there as
\* it was (id, abspath, hasSource, isIndexed), gives every new coordinate a
\* row that is not indexed, and keeps one row per coordinate, also when the
\* Maven root and the Gradle cache both hold the coordinate.
C28_UpsertKeepsRows ==
    call.op = "upsert" =>
       LET before == call.store.artifacts
           after == call.result.artifacts
       IN /\ Len(after) >= Len(before)
          /\ \A k \in 1..Len(before) : after[k] = before[k]
          /\ \A k \in (Len(before) + 1)..Len(after) : ~after[k].isIndexed
          /\ \A i \in 1..Len(call.artifacts) :
                \E k \in 1..Len(after) : SameCoordinate(after[k], call.artifacts[i])
          /\ \A i, j \in 1..Len(after) : SameCoordinate(after[i], after[j]) => i = j

\* an indexed Maven row meets the same coordinate scanned from the Gradle
\* cache, along with a coordinate that is new
C28_Witness ==
    /\ call.op = "upsert"
    /\ Len(call.store.artifacts) = 1
    /\ call.store.artifacts[1].isIndexed
    /\ Len(call.result.artifacts) = 2
    /\ \E i \in 1..Len(call.artifacts) :
          /\ SameCoordinate(call.artifacts[i], call.store.artifacts[1])
          /\ call.artifacts[i].abspath # call.store.artifacts[1].abspath

\* C29: in every reachable state every class row, inheritance edge and
\* resource row names an artifact row that exists, and every resource-class
\* link names a resource row that exists.
C29_ReferentialIntegrity ==
    /\ \A c \in BagToSet(db.classes_fts) : c.artifact_id \in Ids(db)
    /\ \A e \in BagToSet(db.inheritance) : e.artifact_id \in Ids(db)
    /\ \A r \in db.resources : r.artifact_id \in Ids(db)
    /\ \A l \in BagToSet(db.resource_classes) : \E r \in db.resources : r.id = l.resource_id

\* the store is filled again after a refresh() has emptied it
C29_Witness ==
    /\ refreshes > 0
    /\ db.resource_seq > 1
    /\ db.resources # {}
    /\ db.resource_classes # EmptyBag
    /\ db.classes_fts # EmptyBag
    /\ db.inheritance # EmptyBag

\* search, searchClass, searchImplementations, searchResources and
\* getResourcesForClass have nothing to answer from store d
AnswersEmpty(d) ==
    /\ d.artifacts = <<>>
    /\ \A o \in searchClass(d.classes_fts, Ids(d), "*") : o.rows = {}
    /\ d.inheritance = EmptyBag
    /\ \A o \in searchResources(d, "proto") : DOMAIN o.rows = {}
    /\ d.resource_classes = EmptyBag

\* the root an artifact row was scanned from
RootOf(a) == IF StartsWith(a.abspath, MavenRoot \o "/") THEN "maven" ELSE "gradle"

\* C30: while neither root exists no watcher is created, no step adds a
\* row and every query answers empty; a root that does not exist adds no
\* artifact row, and a watcher is created only over roots that exist.
C30_AbsentRoots ==
    [][/\ roots = {} =>
             /\ ~watcher'
             /\ db'.artifacts = db.artifacts
             /\ \A t \in {"classes_fts", "inheritance", "resource_classes"} :
                    BagToSet(db'[t]) \subseteq BagToSet(db[t])
             /\ db'.resources \subseteq db.resources
             /\ AnswersEmpty(db')
        /\ \A k \in (Len(db.artifacts) + 1)..Len(db'.artifacts) : RootOf(db'.artifacts[k]) \in roots
        /\ (watcher' /\ ~watcher) => Len(watchPaths(roots)) = Cardinality(roots) /\ roots # {}]_vars

\* a step in which a run of index() goes through its store work: the upsert,
\* the backfill check and the selection of the unindexed artifacts
StoreStep ==
    \E r \in Runs :
       /\ run[r].pc = "scan"
       /\ run'[r].pc = "ingest" \/ (run'[r].pc = "idle" /\ lastDone' = "ok")

\* C31: the backfill check of index() resets every isIndexed flag and
\* empties the class index, in one step, when the inheritance table is empty
\* and an artifact is indexed; otherwise it changes no flag and no class row.
C31_BackfillCheck ==
    [][StoreStep =>
          IF db.inheritance = EmptyBag /\ \E k \in 1..Len(db.artifacts) : db.artifacts[k].isIndexed
          THEN /\ \A k \in 1..Len(db'.artifacts) : ~db'.artifacts[k].isIndexed
               /\ db'.classes_fts = EmptyBag
          ELSE /\ \A k \in 1..Len(db.artifacts) : db'.artifacts[k].isIndexed = db.artifacts[k].isIndexed
               /\ db'.classes_fts = db.classes_fts]_vars

\* a run has gone through the reset: nothing is indexed and the class index
\* is empty, while the resources of the earlier run are still there
C31_Witness ==
    /\ refreshes = 0
    /\ \E r \in Runs : run[r].pc = "ingest"
    /\ db.resources # {}
    /\ db.classes_fts = EmptyBag
    /\ \A k \in 1..Len(db.artifacts) : ~db.artifacts[k].isIndexed

\* the class a well-formed sample file declares
DeclaredName(buffer) ==
    IF buffer = PlainClass THEN "com.a.Foo"
    ELSE IF buffer = WideClass THEN "com.a.Wide"
    ELSE "com.a.Root"

\* C32: ClassParser.parse fails on a wrong magic and on an unknown
\* constant-pool tag, counts a Long or Double entry as two indices (the class
\* entries behind them resolve), gives no super class without failing when
\* super_class is 0, and the archive's commit holds exactly the classes of the
\* entries that parsed.
C32_ClassParser ==
    call.op = "parseArchive" =>
        /\ \A k \in 1..Len(call.buffers) :
              /\ SubSeq(call.buffers[k], 1, 4) # MAGIC => ~call.infos[k].ok
              /\ call.buffers[k] = BadTagClass => ~call.infos[k].ok
              /\ call.buffers[k] = WideClass =>
                    /\ call.infos[k].ok
                    /\ call.infos[k].className = "com.a.Wide"
                    /\ call.infos[k].superClass = "com.a.Base"
              /\ call.buffers[k] = RootClass =>
                    /\ call.infos[k].ok
                    /\ call.infos[k].className = "com.a.Root"
                    /\ call.infos[k].superClass = ""
        /\ {row.class_name : row \in BagToSet(call.result.classes_fts)}
              = {DeclaredName(call.buffers[k]) :
                    k \in {j \in 1..Len(call.buffers) :
                              call.buffers[j] \in {PlainClass, WideClass, RootClass}}}
        /\ call.result.artifacts[1].isIndexed

C32_Witness ==
    /\ call.op = "parseArchive"
    /\ call.buffers = <<BadTagClass, WideClass>>
    /\ {row.class_name : row \in BagToSet(call.result.classes_fts)} = {"com.a.Wide"}

\* C33: the definitions ProtoParser returns are exactly the names that follow
\* a message, enum or service keyword at brace depth 0 of the proto text, in
\* order of appearance, and no declaration nested inside braces is among them.
C33_TopLevelDefinitions ==
    call.op = "extractTopLevelDefinitions" =>
        /\ call.result = TopLevelNames(call.content)
        /\ \A k \in 1..Len(call.result) : call.result[k] \notin NestedNames(call.content)

\* without string literals that hold a brace the scan is exact
C33_PlainText ==
    (/\ call.op = "extractTopLevelDefinitions"
     /\ \A i \in 1..Len(call.content) :
           CharAt(call.content, i) \in {"{", "}"} => ~InLiteral(call.content, i))
    => call.result = TopLevelNames(call.content)

IsMainJar(name) ==
    EndsWith(name, ".jar") /\ ~EndsWith(name, "-sources.jar") /\ ~EndsWith(name, "-javadoc.jar")

\* C34: for one (groupId, artifactId, version) directory of the Gradle cache
\* the scan emits at most one artifact, over all hash directories: one iff
\* some hash directory holds a .jar that is neither -sources.jar nor
\* -javadoc.jar, with abspath the path of such a jar, and hasSource iff some
\* file of any hash directory ends with -sources.jar.
C34_GradleDirectory ==
    call.op = "gradleDir" =>
        /\ Len(call.result) <= 1
        /\ Len(call.result) = 1 <=> \E k \in 1..Len(call.files) : IsMainJar(call.files[k][2])
        /\ \A r \in 1..Len(call.result) :
              /\ \E k \in 1..Len(call.files) :
                    /\ IsMainJar(call.files[k][2])
                    /\ call.result[r].abspath
                          = GradleVersionDir(4) \o "/" \o call.files[k][1] \o "/" \o call.files[k][2]
              /\ call.result[r].hasSource
                    <=> \E k \in 1..Len(call.files) : EndsWith(call.files[k][2], "-sources.jar")
              /\ call.result[r].groupId = "com.ab"
              /\ call.result[r].artifactId = "lib4"
              /\ call.result[r].version = "1.0"

\* the main jar in one hash directory, the sources jar in the next
C34_Witness ==
    /\ call.op = "gradleDir"
    /\ call.files = << <<"h1", "lib4-1.0.jar">>, <<"h1", "lib4-1.0.pom">>, <<"h2", "lib4-1.0-sources.jar">> >>
    /\ Len(call.result) = 1
    /\ call.result[1].hasSource

\* the artifacts that have started and have not settled
InProgress(c) == IF c.pc = "await" THEN Len(ChunkOf(c.artifactsToIndex, c.i)) - c.settled ELSE 0

\* C35: within a run the unindexed artifacts are processed in consecutive
\* chunks of at most 50: a chunk is the next 50 positions of the list (fewer at
\* its end), at most 50 ingestions are in progress at any time, and the next
\* chunk starts only when every artifact of the current one has settled.
C35_Chunks ==
    [][/\ InProgress(call) <= 50
       /\ InProgress(call') <= 50
       /\ call.pc = "await" =>
             /\ call.i % 50 = 1
             /\ ChunkOf(call.artifactsToIndex, call.i)
                   = [k \in 1..(IF Len(call.artifactsToIndex) - call.i + 1 < 50
                                THEN Len(call.artifactsToIndex) - call.i + 1 ELSE 50) |->
                         call.artifactsToIndex[call.i + k - 1]]
       /\ call'.i # call.i =>
             /\ InProgress(call) = 0
             /\ call'.i = call.i + Len(ChunkOf(call.artifactsToIndex, call.i))
                   \/ call'.pc = "done"]_vars

\* the third chunk of a list of 101 artifacts has started
C35_Witness ==
    /\ call.op = "chunks"
    /\ Len(call.artifactsToIndex) = 101
    /\ call.i = 101
    /\ call.pc = "await"

\* C36: however often and in whatever order startWatch and startSchedule are
\* called, at most one watcher and at most one hourly timer are ever created,
\* and the indexer holds the one that was.
C36_OneWatcherOneTimer ==
    call.op = "start" =>
        /\ call.watchers <= 1
        /\ call.intervals <= 1
        /\ watcher <=> call.watchers = 1
        /\ scheduleTimer <=> call.intervals = 1

\* both exist and two further calls have returned
C36_Witness ==
    /\ call.op = "start"
    /\ call.calls >= 4
    /\ call.awaiting = 0
    /\ call.watchers = 1
    /\ call.intervals = 1

ArtifactQueries == {"", "lib", "com.a", "lib2"}

\* the columns of the artifact table that search reads
ArtifactRows(d) ==
    [k \in 1..Len(d.artifacts) |->
        <<d.artifacts[k].id, d.artifacts[k].groupId, d.artifacts[k].artifactId,
          d.artifacts[k].version, d.artifacts[k].abspath, d.artifacts[k].hasSource>>]

\* the artifact has a row and the scan of the disk as it is now does not find it
GoneFromDisk(a) ==
    \A k \in 1..Len(ScanAll(roots, disk, <<>>)) :
        ~SameCoordinate(ScanAll(roots, disk, <<>>)[k], a)

\* C37: the artifact table only grows. No step of an index() run, of refresh()
\* or of the watcher removes an artifact row or changes its id or coordinate,
\* and every row searchArtifacts returned for a query it returns again.
C37_ArtifactsOnlyGrow ==
    [][/\ Len(db'.artifacts) >= Len(db.artifacts)
       /\ \A k \in 1..Len(db.artifacts) :
             /\ db'.artifacts[k].id = db.artifacts[k].id
             /\ SameCoordinate(db'.artifacts[k], db.artifacts[k])
             /\ db'.artifacts[k].abspath = db.artifacts[k].abspath
       /\ ArtifactRows(db') # ArtifactRows(db) =>
             \A q \in ArtifactQueries : \A before \in search(db, q) : \A after \in search(db', q) :
                before \subseteq after]_vars

\* an index() run and a refresh() have completed, and a row whose artifact is
\* no longer found on disk is still returned
C37_Witness ==
    /\ lastDone = "ok"
    /\ refreshes > 0
    /\ isIndexing = FALSE
    /\ Len(db.artifacts) > 1
    /\ GoneFromDisk(db.artifacts[1])
    /\ \A rows \in search(db, "lib") : \E row \in rows : row.id = 1 /\ row.artifactId = "lib2"

\* class rows of a store in which no (artifact, class name) pair occurs twice
UniqueClasses(d) ==
    \A row \in BagToSet(d.classes_fts) :
        /\ CopiesIn(row, d.classes_fts) = 1
        /\ \A other \in BagToSet(d.classes_fts) :
              other.artifact_id = row.artifact_id /\ other.class_name = row.class_name
                 => other = row

\* C38: each class name occurs at most once per artifact in the class index,
\* whatever entries the archive holds: here after the commit of an archive of
\* .class entries, which may declare the same class more than once.
C38_ClassOncePerArtifact == call.op = "parseArchive" => UniqueClasses(call.result)

\* in the stores of the sample archives, where no two .class entries declare
\* the same class and a .proto derives the name of a class, no name is doubled
C38_SampleArchives == UniqueClasses(db)

\* C39: no repository change is lost for good. When the index() call of a
\* debounce callback has returned at the guard because a run was in progress,
\* then, with the hourly timer and the watcher fairly scheduled, a later
\* index() run starts (its scan comes after the change), as long as the
\* behaviour has runs left to start.
C39_NoChangeLost ==
    (call = Dropped /\ runsStarted < MaxRuns) ~> (call = NoCall)

====
